---- MODULE Spec2Model ----
(***************************************************************************)
(* Fetch/resume crawl engine of Crawl_DB.                                  *)
(*                                                                         *)
(* The specifications of this module:                                      *)
(*   Spec        one run of a checkpointed crawl driver (run_magnet_jobs,  *)
(*               run_collection_magnets, crawl_all_pages /                 *)
(*               run_collect_actors, run_collection_works);                *)
(*   SpecResume  a magnet stage interrupted once and started again;        *)
(*   SpecFetch   PlaywrightPageFetcher.fetch with its challenge wait;      *)
(*   SpecStore   Storage.save_magnets / save_collection_magnets;           *)
(*   SpecBlock   the pure block detector is_blocked_page;                  *)
(*   SpecFilter  the scope filter _apply_work_filters;                     *)
(*   SpecCookie  the cookie normalizer and its round trip;                 *)
(*   SpecTx      the Storage scope, its transactions and all its saves;    *)
(*   SpecUpsert  SpecTx restricted to the saves of subjects and works;     *)
(*   SpecSnapshot  load_cookie_dict on a session snapshot file;            *)
(*   SpecSleep   sleep_with_cancel;                                        *)
(*   SpecFetcher the create_fetcher context manager in browser mode;       *)
(*   SpecEdit    Storage.update_work_fields;                               *)
(*   SpecPages   the page loops crawl_all_pages / crawl_collection_works;  *)
(*   SpecCheckpoint  save_checkpoint, load_checkpoint, clear_checkpoint;   *)
(*   SpecFlow    FlowWorker.run, the pipeline worker of the GUI;           *)
(*   SpecItems   the item loop of run_magnet_jobs over the magnets table.  *)
(* Each specification drives its own variables and leaves the others at    *)
(* their idle values.                                                      *)
(***************************************************************************)
EXTENDS Integers, Sequences, FiniteSets, TLC

VARIABLES
    \* ---- crawl drivers ------------------------------------------------
    stage,          \* which driver runs: "magnets" | "coll_magnets" | "actors" | "coll_works"
    mode,           \* FetchConfig.mode: "httpx" | "browser"
    cookieOk,       \* TRUE iff load_cookie_dict(cookie_json) would succeed
    filter,         \* actor_name / collection_name filter (set of names; {} = none)
    db,             \* Storage candidates: name -> number of works (collection names for coll_works)
    ckpt,           \* checkpoint store: stage key -> cursor or NoCursor
    ckpt0,          \* the checkpoint store as it was before the run
    history,        \* run history log (sequence of event names)
    cancel,         \* current value of the cancellation predicate
    cancelAtStart,  \* value the predicate had when the run started
    pc,             \* control position of the driver
    failure,        \* what the stage raised: "none" | "session" | "blocked" | "error"
    fetcherCreated, \* create_fetcher has been entered
    actorItems,     \* sorted (name) sequence iterated by the outer loop
    ai,             \* 1-based position in actorItems
    wi,             \* 0-based work index inside the current target
    resumeActor,    \* resume_actor (NoName when falsy)
    resumeIndex,    \* resume_index
    resumeMode,     \* resume_mode
    result,         \* last FetchResult.blocked: "none" | "ok" | "blocked"
    fetchLog,       \* items/pages for which fetcher.fetch was called, in order
    writeLog,       \* items whose Storage transaction committed, in order
    faults,         \* per-item failures injected so far
    pageNo,         \* crawl_all_pages: current page number
    resumed,        \* TRUE in a run started again after an interrupted run
    prevWrites,     \* items the interrupted run had written to Storage
    prevFetched,    \* items the interrupted run had fetched
    \* ---- PlaywrightPageFetcher.fetch ----------------------------------
    fpc,            \* control position inside fetch
    fnow,           \* time.monotonic(), in seconds
    fdeadline,      \* deadline of the challenge wait
    fselector,      \* TRUE iff expected_selector was supplied
    fcancel,        \* value of the cancellation predicate
    fblocked,       \* result.blocked of the last capture
    freturn,        \* how fetch ended: "none" | "ok" | "blocked" | "CancelledError" |
                    \*   "OSError"
    fwait,          \* how the challenge wait ended: "none" | "waiting" | "appeared" |
                    \*   "poll_timeout" | "deadline" | "cancelled"
    fpolls,         \* wait_for_selector calls made
    fdumps,         \* _dump_debug calls made
    fresult,        \* the FetchResult held by fetch (NoResult before the first capture)
    fdump,          \* what happened in the last _dump_debug call ("none" before it)
    \* ---- Storage.save_magnets / save_collection_magnets -----------------
    storeApi,       \* which of the two methods this run exercises
    magnets,        \* table magnets: sequence of rows <<work_id, magnet>>
    collMagnets,    \* table collection_magnets: rows <<collection_work_id, magnet>>
    works,          \* rows of works / collection_works: set of <<api, code>>
    lastSave,       \* the last call: [work, M, before, ret] or NoSave
    \* ---- is_blocked_page -----------------------------------------------
    bhtml,          \* argument html, a sequence of text tokens
    btitle,         \* argument title, a sequence of text tokens
    bstatus,        \* argument status_code (StatusNone for None)
    bresult,        \* <<>> before the call, then <<blocked, reason>>
    \* ---- _apply_work_filters -------------------------------------------
    flAll,          \* argument all_works: name -> sequence of codes
    flActors,       \* argument actor_filters (sequence of names)
    flCodes,        \* argument code_keywords (sequence of keywords)
    flPrefixes,     \* argument series_prefixes (sequence of prefixes)
    flResult,       \* <<>> before the call, then <<returned dict>>
    \* ---- cookie normalizer ----------------------------------------------
    ckShape,        \* shape of the cookies handed in: "list" | "map" ("none" when idle)
    ckInput,        \* the structured cookie list handed in (sequence of raw items)
    ckMap,          \* the flat map handed in: [flat, items] (NoStore for a list)
    ckpc,           \* "idle" | "start" | "normalized" | "coerced" | "back"
    ckOut,          \* _normalize_playwright_cookies(ckInput)
    ckStore,        \* _coerce_cookie_store(ckInput): [flat, items]
    ckRound,        \* _normalize_playwright_cookies(ckStore)
    ckHttpx,        \* _extract_httpx_cookie_dict(ckStore)
    ckAgain,        \* _normalize_playwright_cookies(ckOut)
    \* ---- Storage scope and upserts ---------------------------------------
    txTables,       \* table family the run writes: "actors" | "collections"
    txDurable,      \* the committed database: [subjects, works, magnets]
    txConn,         \* the database as the open connection sees it
    txScope,        \* "closed" | "open": the "with Storage(...)" block
    txExit,         \* how the last scope was left: "none" | "clean" | "error"
    txBefore,       \* txDurable when the scope was entered
    txpc,           \* position inside a save: "idle" | "subject" | "work"
    txCall,         \* the save in progress, or NoCall
    txCalls,        \* save calls made so far
    txSubj,         \* per subject key: the writes it received (hrefs asked / kept)
    txWork,         \* per (subject key, code): the writes it received
    \* ---- load_cookie_dict ------------------------------------------------
    snFile,         \* the snapshot file: "missing" | "unparsable" | "json"
    snData,         \* the JSON document in it: [shape, entries]
    snpc,           \* "idle" | "start" | "done"
    snOut,          \* what load_cookie_dict did: [raised, cookies, sidecar, items]
    \* ---- sleep_with_cancel -----------------------------------------------
    slpc,           \* "idle" | "start" | "check" | "sleeping" | "returned" | "raised"
    slSeconds,      \* the argument seconds, in ticks
    slStep,         \* the argument step_seconds, in ticks
    slNow,          \* time.monotonic(), in ticks
    slDeadline,     \* deadline
    slCancel,       \* value of the cancellation predicate
    slSlice,        \* length asked of the time.sleep call in progress or last made
    slChecks,       \* _check_cancel calls made
    slSlices,       \* time.sleep calls made
    slSeen,         \* TRUE once a _check_cancel call found the predicate true
    \* ---- create_fetcher, browser mode -------------------------------------
    cfpc,           \* "idle" | "start" | "launch" | "cookies" | "page" | "body" |
                    \*   "exited" | "raised"
    cfPlaywright,   \* TRUE iff playwright is installed (sync_playwright is not None)
    cfChannels,     \* the browser channels still to be tried
    cfCookieStore,  \* TRUE iff cookie_store is not empty
    cfLaunches,     \* persistent contexts launched
    cfCloses,       \* context.close() calls
    cfUses,         \* fetches the body made with the fetcher
    cfExit,         \* how create_fetcher was left ("none" while inside)
    cfCalls,        \* create_fetcher calls made
    \* ---- Storage.update_work_fields ----------------------------------------
    edDb,           \* the actor tables: [subjects, works, magnets]
    edBefore,       \* edDb before the last call
    edArgs,         \* arguments of the last call
    edRet,          \* its outcome: "none" | "true" | "false" | "ValueError"
    edCalls,        \* calls made
    \* ---- crawl_all_pages / crawl_collection_works on a site ----------------
    pgKind,         \* "actors" (crawl_all_pages) | "works" (crawl_collection_works)
    pgSite,         \* the site: URL -> [next, actors, section]
    pgUrl,          \* url (NoUrl for None)
    pgPage,         \* page
    pgFetched,      \* the URLs fetched, in order
    pgItems,        \* items / rows collected so far
    pgSeen,         \* seen_hrefs
    pgpc,           \* "loop" | "fetched" | "returned" | "failed" | "cancelled"
    \* ---- the checkpoint file userdata/checkpoints.json ---------------------
    cpFile,         \* [state: "missing" | "corrupt" | "ok", data: name -> entry]
    cpLast,         \* per stage name, the cursor last saved and not cleared since
    cpOp,           \* the last call: [op, name]
    cpRet,          \* what the last load_checkpoint returned
    cpClock,        \* datetime.utcnow(), one tick per call
    \* ---- FlowWorker.run ------------------------------------------------------
    fwEnabled,      \* the stage kinds whose run_* flag is set
    fwpc,           \* "idle" | "start" | "loop" | "exited"
    fwIdx,          \* idx of the for loop
    fwCancel,       \* self._cancel_requested
    fwChecker,      \* the process-wide _cancel_checker: "none" | "set"
    fwSignals,      \* the signals emitted, in order
    fwRan,          \* the stage functions called, in order
    fwExit,         \* how run() was left: "none" | "return" | the exception that left it
    \* ---- the item loop of run_magnet_jobs over a real magnets table ----------
    itTable,        \* rows <<work, magnet>> of the magnets table
    itIdx,          \* i of the loop, 0-based
    itCkpt,         \* index of the "magnets" cursor, NoIndex when none is saved
    itpc,           \* "idle" | "item" | "done" | "raised"
    itLast          \* what the last round met: work, fetch outcome, parsed records

driverVars == <<stage, mode, cookieOk, filter, db, ckpt, ckpt0, history, cancel,
                cancelAtStart, pc, failure, fetcherCreated, actorItems, ai, wi,
                resumeActor, resumeIndex, resumeMode, result, fetchLog, writeLog,
                faults, pageNo, resumed, prevWrites, prevFetched>>
fetchVars == <<fpc, fnow, fdeadline, fselector, fcancel, fblocked, freturn, fwait,
               fpolls, fdumps, fresult, fdump>>
storeVars == <<storeApi, magnets, collMagnets, works, lastSave>>
blockVars == <<bhtml, btitle, bstatus, bresult>>
filterVars == <<flAll, flActors, flCodes, flPrefixes, flResult>>
cookieVars == <<ckShape, ckInput, ckMap, ckpc, ckOut, ckStore, ckRound, ckHttpx,
               ckAgain>>
txVars == <<txTables, txDurable, txConn, txScope, txExit, txBefore, txpc, txCall,
           txCalls, txSubj, txWork>>
snapVars == <<snFile, snData, snpc, snOut>>
sleepVars == <<slpc, slSeconds, slStep, slNow, slDeadline, slCancel, slSlice, slChecks,
               slSlices, slSeen>>
cfVars == <<cfpc, cfPlaywright, cfChannels, cfCookieStore, cfLaunches, cfCloses, cfUses,
            cfExit, cfCalls>>
editVars == <<edDb, edBefore, edArgs, edRet, edCalls>>
pgVars == <<pgKind, pgSite, pgUrl, pgPage, pgFetched, pgItems, pgSeen, pgpc>>
cpVars == <<cpFile, cpLast, cpOp, cpRet, cpClock>>
fwVars == <<fwEnabled, fwpc, fwIdx, fwCancel, fwChecker, fwSignals, fwRan, fwExit>>
itVars == <<itTable, itIdx, itCkpt, itpc, itLast>>
moreVars == <<pgVars, cpVars, fwVars, itVars>>
lateVars == <<snapVars, sleepVars, cfVars, editVars, moreVars>>
earlyVars == <<driverVars, fetchVars, storeVars, blockVars, filterVars, cookieVars, txVars>>
extraVars == <<filterVars, cookieVars, txVars, lateVars>>
vars == <<driverVars, fetchVars, storeVars, blockVars, extraVars>>

(***************************************************************************)
(* Bounds of the model                                                     *)
(***************************************************************************)
MaxWorks == 2       \* works per target
MaxFaults == 1      \* per-item failures (other than block / cancel) per run
MaxPages == 3       \* pages of the paginated subject listing

(***************************************************************************)
(* Names.  A target name is modelled by the character code of a one-letter *)
(* name, so that str.lower() and the ordering of keys are real operations: *)
(* "B" = 66, "a" = 97, "c" = 99, "z" = 122.                                *)
(***************************************************************************)
NamePool == {66, 97, 99}
FilterPool == {97, 122}
NoName == 0
NoCursor == [name |-> NoName, index |-> -1]

\* str.lower() on a one-letter name
Lower(ch) == IF ch \in 65..90 THEN ch + 32 ELSE ch

\* sorted(all_works.items(), key=lambda kv: kv[0].lower()), names only
RECURSIVE SortedByLowerMutant(_)
SortedByLowerMutant(S) ==
    IF S = {} THEN <<>>
    ELSE LET m == CHOOSE x \in S : \A y \in S : x <= y
         IN <<m>> \o SortedByLowerMutant(S \ {m})

RECURSIVE SortedByLower(_)
SortedByLower(S) ==
    IF S = {} THEN <<>>
    ELSE LET m == CHOOSE x \in S : \A y \in S : Lower(x) <= Lower(y)
         IN <<m>> \o SortedByLower(S \ {m})

StageKeys == {"magnets", "coll_magnets", "coll_works"}
Stages == {"magnets", "coll_magnets", "actors", "coll_works"}
Terminal == {"done", "failed", "cancelled", "returned"}


cfgVars == <<stage, mode, cookieOk, filter, db, ckpt0, cancelAtStart>>
resumeVars == <<resumed, prevWrites, prevFetched>>
idleVars == <<cfgVars, resumeVars, fetchVars, storeVars, blockVars, extraVars>>

(***************************************************************************)
(* Shared helpers of the drivers                                           *)
(***************************************************************************)
EmptyDb == [n \in {} |-> 0]

\* _apply_work_filters, exact-name branch: keep the named targets that exist
ApplyWorkFilters(all, names) ==
    IF names = {} THEN all
    ELSE [n \in (names \cap DOMAIN all) |-> all[n]]

\* load_checkpoint(name) or {}  ->  (resume_actor, resume_index)
CursorName(c) == IF c = NoCursor THEN NoName ELSE c.name
CursorIndex(c) == IF c = NoCursor THEN 0 ELSE c.index

\* the unit the driver is working on: <<target, work index>> (page number for the listing)
CurName == IF ai \in 1..Len(actorItems) THEN actorItems[ai] ELSE NoName
CurItem == IF stage = "actors" THEN <<NoName, pageNo>> ELSE <<CurName, wi>>

\* a cursor stored one item too far
save_checkpointMutant(store, name, cursor) ==
    [store EXCEPT ![name] = [cursor EXCEPT !.index = @ + 1]]

\* save_checkpoint: data[name] = {"cursor": cursor}
save_checkpoint(store, name, cursor) == [store EXCEPT ![name] = cursor]

\* clear_checkpoint: data.pop(name)
clear_checkpointMutant(store, name) == store

clear_checkpoint(store, name) == [store EXCEPT ![name] = NoCursor]

\* _check_cancel / ensure_not_cancelled: TRUE iff the check raises CancelledError
CheckCancelRaisesMutant == FALSE

CheckCancelRaises == cancel

\* raise CancelledError out of the stage
RaiseCancelled == pc' = "cancelled" /\ failure' = failure
\* a failure that is noted and lets the stage go on to its save
RaiseFailureSaves(kind) == pc' = "save" /\ failure' = kind

\* raise any other failure out of the stage
RaiseFailure(kind) == pc' = "failed" /\ failure' = kind

(***************************************************************************)
(* The cancellation predicate may become true at any moment of a run.      *)
(***************************************************************************)
SetCancel ==
    /\ pc \notin Terminal
    /\ pc # "idle"
    /\ ~cancel
    /\ cancel' = TRUE
    /\ UNCHANGED <<ckpt, history, pc, failure, fetcherCreated, actorItems, ai, wi,
                   resumeActor, resumeIndex, resumeMode, result, fetchLog, writeLog,
                   faults, pageNo>>
    /\ UNCHANGED idleVars

(***************************************************************************)
(* fetcher.fetch as the drivers see it (HttpxPageFetcher.fetch and         *)
(* PlaywrightPageFetcher.fetch): a cancellation check on entry, the        *)
(* request, and a FetchResult or an exception on return.                   *)
(***************************************************************************)
Fetcher_Call ==
    /\ pc = "fetch"
    /\ fetchLog' = Append(fetchLog, CurItem)
    /\ IF CheckCancelRaises
         THEN result' = "cancelled" /\ pc' = "fetched"
         ELSE result' = "none" /\ pc' = "fetching"
    /\ UNCHANGED <<ckpt, history, cancel, failure, fetcherCreated, actorItems, ai, wi,
                   resumeActor, resumeIndex, resumeMode, writeLog, faults, pageNo>>
    /\ UNCHANGED idleVars

\* outcomes of a fetch whose request was sent
FetchOutcomes ==
    IF CheckCancelRaises
      THEN (IF mode = "httpx" THEN {"cancelled"} ELSE {"cancelled", "blocked"})
      ELSE {"ok", "blocked"} \cup (IF faults < MaxFaults THEN {"error"} ELSE {})

Fetcher_Return ==
    /\ pc = "fetching"
    /\ \E r \in FetchOutcomes :
         /\ result' = r
         /\ faults' = IF r = "error" THEN faults + 1 ELSE faults
    /\ pc' = "fetched"
    /\ UNCHANGED <<ckpt, history, cancel, failure, fetcherCreated, actorItems, ai, wi,
                   resumeActor, resumeIndex, resumeMode, fetchLog, writeLog, pageNo>>
    /\ UNCHANGED idleVars

(***************************************************************************)
(* run_magnet_jobs (app/collection/actors/actor_magnets.py)                *)
(***************************************************************************)
\* normalize_fetch_config; cookies = load_cookie_dict(cookie_json)
MJ_LoadSession ==
    /\ pc = "start" /\ stage = "magnets"
    /\ IF cookieOk
         THEN pc' = "open" /\ failure' = failure
         ELSE RaiseFailure("session")
    /\ UNCHANGED <<ckpt, history, cancel, fetcherCreated, actorItems, ai, wi,
                   resumeActor, resumeIndex, resumeMode, result, fetchLog, writeLog,
                   faults, pageNo>>
    /\ UNCHANGED idleVars

\* with Storage(...): candidates, filters, resume point, create_fetcher, sort
MJ_Prepare ==
    /\ pc = "open" /\ stage = "magnets"
    /\ LET filtered == ApplyWorkFilters(db, filter)
           cur == IF filter # {} THEN NoCursor ELSE ckpt["magnets"]
       IN IF DOMAIN db = {} \/ DOMAIN filtered = {}
            THEN /\ pc' = "returned"
                 /\ UNCHANGED <<fetcherCreated, actorItems, ai, resumeActor,
                                resumeIndex, resumeMode>>
            ELSE /\ resumeActor' = CursorName(cur)
                 /\ resumeIndex' = CursorIndex(cur)
                 /\ fetcherCreated' = TRUE
                 /\ actorItems' = SortedByLower(DOMAIN filtered)
                 /\ resumeMode' = (CursorName(cur) # NoName)
                 /\ ai' = 1
                 /\ pc' = "actor"
    /\ UNCHANGED <<ckpt, history, cancel, failure, wi, result, fetchLog, writeLog,
                   faults, pageNo>>
    /\ UNCHANGED idleVars

\* start_index = resume_index if actor_name == resume_actor else 0
MJ_StartIndex(name) == IF name = resumeActor THEN resumeIndex ELSE 0

\* head of "for actor_name, works in actor_items"
MJ_NextActor ==
    /\ pc = "actor" /\ stage = "magnets"
    /\ IF ai > Len(actorItems)
         THEN pc' = "clear" /\ UNCHANGED <<failure, ai, wi, resumeMode>>
         ELSE IF CheckCancelRaises
           THEN RaiseCancelled /\ UNCHANGED <<ai, wi, resumeMode>>
           ELSE IF resumeMode /\ actorItems[ai] # resumeActor
             THEN ai' = ai + 1 /\ UNCHANGED <<pc, failure, wi, resumeMode>>
             ELSE /\ resumeMode' = FALSE
                  /\ wi' = MJ_StartIndex(actorItems[ai])
                  /\ pc' = "item"
                  /\ UNCHANGED <<failure, ai>>
    /\ UNCHANGED <<ckpt, history, cancel, fetcherCreated, actorItems, resumeActor,
                   resumeIndex, result, fetchLog, writeLog, faults, pageNo>>
    /\ UNCHANGED idleVars

\* head of "for i, work in enumerate(works[start_index:], start=start_index)"
MJ_ItemCheck ==
    /\ pc = "item" /\ stage = "magnets"
    /\ IF wi >= db[CurName]
         THEN pc' = "actor" /\ ai' = ai + 1 /\ failure' = failure
         ELSE IF CheckCancelRaises
           THEN RaiseCancelled /\ ai' = ai
           ELSE pc' = "fetch" /\ ai' = ai /\ failure' = failure
    /\ UNCHANGED <<ckpt, history, cancel, fetcherCreated, actorItems, wi, resumeActor,
                   resumeIndex, resumeMode, result, fetchLog, writeLog, faults, pageNo>>
    /\ UNCHANGED idleVars

\* "except RuntimeError: raise" before "except Exception": the block failure and
\* CancelledError are RuntimeErrors and leave the loop, anything else is skipped
MJ_ReraisedMutant(kind) == kind = "cancelled"

MJ_ReraisedBlockOnly(kind) == kind = "blocked"

MJ_Reraised(kind) == kind \in {"blocked", "cancelled"}

\* crawl_magnets_for_row after the fetch, save_magnets, and the except clauses
MJ_Handle ==
    /\ pc = "fetched" /\ stage = "magnets"
    /\ \/ /\ result = "blocked" /\ MJ_Reraised(result)
          /\ RaiseFailure("blocked")
          /\ UNCHANGED <<writeLog, faults>>
       \/ /\ result = "cancelled" /\ MJ_Reraised(result)
          /\ RaiseCancelled
          /\ UNCHANGED <<writeLog, faults>>
       \/ /\ result \in {"blocked", "cancelled", "error"} /\ ~MJ_Reraised(result)
          /\ pc' = "ckpt" /\ failure' = failure
          /\ UNCHANGED <<writeLog, faults>>
       \/ /\ result = "ok"
          /\ writeLog' = Append(writeLog, CurItem)
          /\ pc' = "sleep" /\ failure' = failure
          /\ UNCHANGED faults
       \/ /\ result = "ok"
          /\ faults < MaxFaults
          /\ faults' = faults + 1
          /\ pc' = "ckpt" /\ failure' = failure
          /\ UNCHANGED writeLog
    /\ UNCHANGED <<ckpt, history, cancel, fetcherCreated, actorItems, ai, wi,
                   resumeActor, resumeIndex, resumeMode, result, fetchLog, pageNo>>
    /\ UNCHANGED idleVars

\* sleep_with_cancel(random.uniform(0.8, 1.6)) inside the try block
MJ_Sleep ==
    /\ pc = "sleep" /\ stage = "magnets"
    /\ IF CheckCancelRaises THEN RaiseCancelled ELSE pc' = "ckpt" /\ failure' = failure
    /\ UNCHANGED <<ckpt, history, cancel, fetcherCreated, actorItems, ai, wi,
                   resumeActor, resumeIndex, resumeMode, result, fetchLog, writeLog,
                   faults, pageNo>>
    /\ UNCHANGED idleVars

\* save_checkpoint("magnets", {"actor": actor_name, "index": i + 1})
MJ_SaveCheckpoint ==
    /\ pc = "ckpt" /\ stage = "magnets"
    /\ ckpt' = save_checkpoint(ckpt, "magnets", [name |-> CurName, index |-> wi + 1])
    /\ wi' = wi + 1
    /\ pc' = "item"
    /\ UNCHANGED <<history, cancel, failure, fetcherCreated, actorItems, ai,
                   resumeActor, resumeIndex, resumeMode, result, fetchLog, writeLog,
                   faults, pageNo>>
    /\ UNCHANGED idleVars

\* clear_checkpoint("magnets")
MJ_Clear ==
    /\ pc = "clear" /\ stage = "magnets"
    /\ ckpt' = clear_checkpoint(ckpt, "magnets")
    /\ pc' = "record"
    /\ UNCHANGED <<history, cancel, failure, fetcherCreated, actorItems, ai, wi,
                   resumeActor, resumeIndex, resumeMode, result, fetchLog, writeLog,
                   faults, pageNo>>
    /\ UNCHANGED idleVars

\* record_history("magnets", {...})
MJ_Record ==
    /\ pc = "record" /\ stage = "magnets"
    /\ history' = Append(history, "magnets")
    /\ pc' = "done"
    /\ UNCHANGED <<ckpt, cancel, failure, fetcherCreated, actorItems, ai, wi,
                   resumeActor, resumeIndex, resumeMode, result, fetchLog, writeLog,
                   faults, pageNo>>
    /\ UNCHANGED idleVars


(***************************************************************************)
(* run_collection_magnets (get_collect_scope_magnets.py)                   *)
(***************************************************************************)
\* cookies: httpx mode lets load_cookie_dict raise, browser mode swallows SystemExit
CM_LoadSession ==
    /\ pc = "start" /\ stage = "coll_magnets"
    /\ IF mode = "httpx" /\ ~cookieOk
         THEN RaiseFailure("session")
         ELSE pc' = "open" /\ failure' = failure
    /\ UNCHANGED <<ckpt, history, cancel, fetcherCreated, actorItems, ai, wi,
                   resumeActor, resumeIndex, resumeMode, result, fetchLog, writeLog,
                   faults, pageNo>>
    /\ UNCHANGED idleVars

\* with Storage(...): candidates, filters, checkpoint, create_fetcher, sort
CM_Prepare ==
    /\ pc = "open" /\ stage = "coll_magnets"
    /\ LET filtered == ApplyWorkFilters(db, filter)
           cur == ckpt["coll_magnets"]
       IN IF DOMAIN filtered = {}
            THEN /\ pc' = "returned"
                 /\ UNCHANGED <<fetcherCreated, actorItems, ai, resumeActor,
                                resumeIndex, resumeMode>>
            ELSE /\ resumeActor' = CursorName(cur)
                 /\ resumeIndex' = CursorIndex(cur)
                 /\ fetcherCreated' = TRUE
                 /\ actorItems' = SortedByLower(DOMAIN filtered)
                 /\ resumeMode' = (CursorName(cur) # NoName)
                 /\ ai' = 1
                 /\ pc' = "actor"
    /\ UNCHANGED <<ckpt, history, cancel, failure, wi, result, fetchLog, writeLog,
                   faults, pageNo>>
    /\ UNCHANGED idleVars

\* head of "for name, works in actor_items"
CM_NextActor ==
    /\ pc = "actor" /\ stage = "coll_magnets"
    /\ IF ai > Len(actorItems)
         THEN pc' = "clear" /\ UNCHANGED <<failure, ai, wi, resumeMode>>
         ELSE IF CheckCancelRaises
           THEN RaiseCancelled /\ UNCHANGED <<ai, wi, resumeMode>>
           ELSE IF resumeMode /\ actorItems[ai] # resumeActor
             THEN ai' = ai + 1 /\ UNCHANGED <<pc, failure, wi, resumeMode>>
             ELSE /\ resumeMode' = FALSE
                  /\ wi' = (IF actorItems[ai] = resumeActor THEN resumeIndex ELSE 0)
                  /\ pc' = "item"
                  /\ UNCHANGED <<failure, ai>>
    /\ UNCHANGED <<ckpt, history, cancel, fetcherCreated, actorItems, resumeActor,
                   resumeIndex, result, fetchLog, writeLog, faults, pageNo>>
    /\ UNCHANGED idleVars

\* head of "for i, work in enumerate(works[start_index:], start=start_index)"
CM_ItemCheck ==
    /\ pc = "item" /\ stage = "coll_magnets"
    /\ IF wi >= db[CurName]
         THEN pc' = "actor" /\ ai' = ai + 1 /\ failure' = failure
         ELSE IF CheckCancelRaises
           THEN RaiseCancelled /\ ai' = ai
           ELSE pc' = "fetch" /\ ai' = ai /\ failure' = failure
    /\ UNCHANGED <<ckpt, history, cancel, fetcherCreated, actorItems, wi, resumeActor,
                   resumeIndex, resumeMode, result, fetchLog, writeLog, faults, pageNo>>
    /\ UNCHANGED idleVars

\* blocked check, parse_magnets, save_collection_magnets
CM_Handle ==
    /\ pc = "fetched" /\ stage = "coll_magnets"
    /\ \/ /\ result = "blocked"
          /\ RaiseFailure("blocked")
          /\ UNCHANGED <<writeLog, faults>>
       \/ /\ result = "cancelled"
          /\ RaiseCancelled
          /\ UNCHANGED <<writeLog, faults>>
       \/ /\ result = "error"
          /\ RaiseFailure("error")
          /\ UNCHANGED <<writeLog, faults>>
       \/ /\ result = "ok"
          /\ writeLog' = Append(writeLog, CurItem)
          /\ pc' = "ckpt" /\ failure' = failure
          /\ UNCHANGED <<faults, ckpt>>
       \/ /\ result = "ok"
          /\ faults < MaxFaults
          /\ faults' = faults + 1
          /\ RaiseFailure("error")
          /\ UNCHANGED writeLog
    /\ UNCHANGED <<ckpt, history, cancel, fetcherCreated, actorItems, ai, wi,
                   resumeActor, resumeIndex, resumeMode, result, fetchLog, pageNo>>
    /\ UNCHANGED idleVars

\* save_checkpoint(checkpoint_name, {"name": name, "index": i + 1})
CM_SaveCheckpoint ==
    /\ pc = "ckpt" /\ stage = "coll_magnets"
    /\ ckpt' = save_checkpoint(ckpt, "coll_magnets", [name |-> CurName, index |-> wi + 1])
    /\ pc' = "sleep"
    /\ UNCHANGED <<history, cancel, failure, fetcherCreated, actorItems, ai, wi,
                   resumeActor, resumeIndex, resumeMode, result, fetchLog, writeLog,
                   faults, pageNo>>
    /\ UNCHANGED idleVars

\* sleep_with_cancel(random.uniform(0.8, 1.6)) after the checkpoint
CM_Sleep ==
    /\ pc = "sleep" /\ stage = "coll_magnets"
    /\ IF CheckCancelRaises
         THEN RaiseCancelled /\ wi' = wi
         ELSE pc' = "item" /\ wi' = wi + 1 /\ failure' = failure
    /\ UNCHANGED <<ckpt, history, cancel, fetcherCreated, actorItems, ai,
                   resumeActor, resumeIndex, resumeMode, result, fetchLog, writeLog,
                   faults, pageNo>>
    /\ UNCHANGED idleVars

\* clear_checkpoint(checkpoint_name)
CM_Clear ==
    /\ pc = "clear" /\ stage = "coll_magnets"
    /\ ckpt' = clear_checkpoint(ckpt, "coll_magnets")
    /\ pc' = "record"
    /\ UNCHANGED <<history, cancel, failure, fetcherCreated, actorItems, ai, wi,
                   resumeActor, resumeIndex, resumeMode, result, fetchLog, writeLog,
                   faults, pageNo>>
    /\ UNCHANGED idleVars

\* record_history(checkpoint_name, {...})
CM_Record ==
    /\ pc = "record" /\ stage = "coll_magnets"
    /\ history' = Append(history, "coll_magnets")
    /\ pc' = "done"
    /\ UNCHANGED <<ckpt, cancel, failure, fetcherCreated, actorItems, ai, wi,
                   resumeActor, resumeIndex, resumeMode, result, fetchLog, writeLog,
                   faults, pageNo>>
    /\ UNCHANGED idleVars


(***************************************************************************)
(* crawl_all_pages / run_collect_actors (collect_actors.py)                *)
(***************************************************************************)
\* cookies: httpx mode lets load_cookie_dict raise, browser mode swallows SystemExit
CA_LoadSession ==
    /\ pc = "start" /\ stage = "actors"
    /\ IF mode = "httpx" /\ ~cookieOk
         THEN RaiseFailure("session")
         ELSE pc' = "open" /\ failure' = failure
    /\ UNCHANGED <<ckpt, history, cancel, fetcherCreated, actorItems, ai, wi,
                   resumeActor, resumeIndex, resumeMode, result, fetchLog, writeLog,
                   faults, pageNo>>
    /\ UNCHANGED idleVars

\* with create_fetcher(cookies, resolved_fetch_config) as fetcher: url, page = 1
CA_CreateFetcher ==
    /\ pc = "open" /\ stage = "actors"
    /\ fetcherCreated' = TRUE
    /\ pageNo' = 1
    /\ pc' = "item"
    /\ UNCHANGED <<ckpt, history, cancel, failure, actorItems, ai, wi,
                   resumeActor, resumeIndex, resumeMode, result, fetchLog, writeLog,
                   faults>>
    /\ UNCHANGED idleVars

\* head of "while url": ensure_not_cancelled()
CA_PageCheck ==
    /\ pc = "item" /\ stage = "actors"
    /\ IF CheckCancelRaises THEN RaiseCancelled ELSE pc' = "fetch" /\ failure' = failure
    /\ UNCHANGED <<ckpt, history, cancel, fetcherCreated, actorItems, ai, wi,
                   resumeActor, resumeIndex, resumeMode, result, fetchLog, writeLog,
                   faults, pageNo>>
    /\ UNCHANGED idleVars

\* blocked check, parse, interstitial break, next-page link
CA_Handle ==
    /\ pc = "fetched" /\ stage = "actors"
    /\ \/ /\ result = "blocked" /\ RaiseFailure("blocked")
       \/ /\ result = "cancelled" /\ RaiseCancelled
       \/ /\ result = "error" /\ RaiseFailure("error")
       \/ /\ result = "ok"
          /\ failure' = failure
          /\ \/ pc' = "save"
             \/ pageNo < MaxPages /\ pc' = "sleep"
    /\ UNCHANGED <<ckpt, history, cancel, fetcherCreated, actorItems, ai, wi,
                   resumeActor, resumeIndex, resumeMode, result, fetchLog, writeLog,
                   faults, pageNo>>
    /\ UNCHANGED idleVars

\* url = next_url; page += 1; sleep_with_cancel(...)
CA_Sleep ==
    /\ pc = "sleep" /\ stage = "actors"
    /\ pageNo' = pageNo + 1
    /\ IF CheckCancelRaises THEN RaiseCancelled ELSE pc' = "item" /\ failure' = failure
    /\ UNCHANGED <<ckpt, history, cancel, fetcherCreated, actorItems, ai, wi,
                   resumeActor, resumeIndex, resumeMode, result, fetchLog, writeLog,
                   faults>>
    /\ UNCHANGED idleVars

\* run_collect_actors: save_actors(data) when data is non-empty
CA_Save ==
    /\ pc = "save" /\ stage = "actors"
    /\ \E hasData \in BOOLEAN :
         writeLog' = IF hasData THEN Append(writeLog, <<NoName, 0>>) ELSE writeLog
    /\ pc' = "done"
    /\ UNCHANGED <<ckpt, history, cancel, failure, fetcherCreated, actorItems, ai, wi,
                   resumeActor, resumeIndex, resumeMode, result, fetchLog, faults, pageNo>>
    /\ UNCHANGED idleVars

(***************************************************************************)
(* run_collection_works (get_collect_scope_works.py)                       *)
(***************************************************************************)
\* iter_collections (ORDER BY LOWER(name)), filter, checkpoint index
CW_Prepare ==
    /\ pc = "start" /\ stage = "coll_works"
    /\ LET wanted == IF filter = {} THEN DOMAIN db ELSE DOMAIN db \cap filter
       IN IF filter # {} /\ wanted = {}
            THEN pc' = "returned" /\ UNCHANGED <<actorItems, ai>>
            ELSE /\ actorItems' = SortedByLower(wanted)
                 /\ ai' = CursorIndex(ckpt["coll_works"]) + 1
                 /\ pc' = "item"
    /\ UNCHANGED <<ckpt, history, cancel, failure, fetcherCreated, wi,
                   resumeActor, resumeIndex, resumeMode, result, fetchLog, writeLog,
                   faults, pageNo>>
    /\ UNCHANGED idleVars

\* head of "for index, (name, href) in enumerate(collections[start_index:], ...)"
CW_ItemCheck ==
    /\ pc = "item" /\ stage = "coll_works"
    /\ IF ai > Len(actorItems)
         THEN pc' = "clear" /\ failure' = failure
         ELSE IF CheckCancelRaises THEN RaiseCancelled ELSE pc' = "crawl" /\ failure' = failure
    /\ UNCHANGED <<ckpt, history, cancel, fetcherCreated, actorItems, ai, wi,
                   resumeActor, resumeIndex, resumeMode, result, fetchLog, writeLog,
                   faults, pageNo>>
    /\ UNCHANGED idleVars

\* crawl_collection_works(href, ...): its own session load, fetcher and page loop
CW_Crawl ==
    /\ pc = "crawl" /\ stage = "coll_works"
    /\ IF mode = "httpx" /\ ~cookieOk
         THEN RaiseFailure("session") /\ UNCHANGED <<fetchLog, faults, fetcherCreated>>
         ELSE /\ fetcherCreated' = TRUE
              /\ IF CheckCancelRaises
                   THEN RaiseCancelled /\ UNCHANGED <<fetchLog, faults>>
                   ELSE /\ fetchLog' = Append(fetchLog, <<CurName, 0>>)
                        /\ \/ pc' = "save" /\ failure' = failure /\ UNCHANGED faults
                           \/ RaiseFailure("blocked") /\ UNCHANGED faults
                           \/ /\ faults < MaxFaults
                              /\ faults' = faults + 1
                              /\ RaiseFailure("error")
    /\ UNCHANGED <<ckpt, history, cancel, actorItems, ai, wi,
                   resumeActor, resumeIndex, resumeMode, result, writeLog, pageNo>>
    /\ UNCHANGED idleVars

\* save_collection_works(...); save_checkpoint(checkpoint_name, {name, index + 1})
CW_Save ==
    /\ pc = "save" /\ stage = "coll_works"
    /\ writeLog' = Append(writeLog, <<CurName, 0>>)
    /\ ckpt' = save_checkpoint(ckpt, "coll_works", [name |-> CurName, index |-> ai])
    /\ ai' = ai + 1
    /\ pc' = "item"
    /\ UNCHANGED <<history, cancel, failure, fetcherCreated, actorItems, wi,
                   resumeActor, resumeIndex, resumeMode, result, fetchLog, faults, pageNo>>
    /\ UNCHANGED idleVars

\* clear_checkpoint(checkpoint_name)
CW_Clear ==
    /\ pc = "clear" /\ stage = "coll_works"
    /\ ckpt' = clear_checkpoint(ckpt, "coll_works")
    /\ pc' = "record"
    /\ UNCHANGED <<history, cancel, failure, fetcherCreated, actorItems, ai, wi,
                   resumeActor, resumeIndex, resumeMode, result, fetchLog, writeLog,
                   faults, pageNo>>
    /\ UNCHANGED idleVars

\* record_history(checkpoint_name, {...})
CW_Record ==
    /\ pc = "record" /\ stage = "coll_works"
    /\ history' = Append(history, "coll_works")
    /\ pc' = "done"
    /\ UNCHANGED <<ckpt, cancel, failure, fetcherCreated, actorItems, ai, wi,
                   resumeActor, resumeIndex, resumeMode, result, fetchLog, writeLog,
                   faults, pageNo>>
    /\ UNCHANGED idleVars


(***************************************************************************)
(* Idle values of the sub-models that a specification does not drive       *)
(***************************************************************************)
\* status_code None
StatusNone == 0

\* no FetchResult yet
NoResult == [status_code |-> StatusNone, html |-> <<>>, title |-> <<>>,
             blocked |-> FALSE, blocked_reason |-> "none", capture |-> 0]

NoSave == [work |-> "none", M |-> <<>>, before |-> 0, ret |-> 0]

FetchIdle ==
    /\ fpc = "idle" /\ fnow = 0 /\ fdeadline = 0 /\ fselector = FALSE
    /\ fcancel = FALSE /\ fblocked = FALSE /\ freturn = "none" /\ fwait = "none"
    /\ fpolls = 0 /\ fdumps = 0 /\ fresult = NoResult /\ fdump = "none"

StoreIdle ==
    /\ storeApi = "none" /\ magnets = <<>> /\ collMagnets = <<>> /\ works = {}
    /\ lastSave = NoSave

BlockIdle ==
    /\ bhtml = <<>> /\ btitle = <<>> /\ bstatus = 0 /\ bresult = <<>>

FilterIdle ==
    /\ flAll = EmptyDb /\ flActors = <<>> /\ flCodes = <<>> /\ flPrefixes = <<>>
    /\ flResult = <<>>

NoStore == [flat |-> <<>>, items |-> <<>>]

CookieIdle ==
    /\ ckInput = <<>> /\ ckpc = "idle" /\ ckOut = <<>> /\ ckStore = NoStore
    /\ ckRound = <<>> /\ ckShape = "none" /\ ckMap = NoStore /\ ckHttpx = <<>>
    /\ ckAgain = <<>>

\* an empty database file after _ensure_schema
TxEmpty == [subjects |-> <<>>, works |-> <<>>, magnets |-> {}]

NoCall == [op |-> "none", key |-> <<"", "">>, code |-> "", title |-> "",
           whref |-> "", rows |-> <<>>, uris |-> <<>>, sid |-> 0, wid |-> 0]

TxIdle ==
    /\ txTables = "none" /\ txDurable = TxEmpty /\ txConn = TxEmpty
    /\ txScope = "closed" /\ txExit = "none" /\ txBefore = TxEmpty
    /\ txpc = "idle" /\ txCall = NoCall /\ txCalls = 0
    /\ txSubj = <<>> /\ txWork = <<>>

NoData == [shape |-> "none", entries |-> <<>>]
NoCookies == [raised |-> FALSE, cookies |-> <<>>, sidecar |-> FALSE, items |-> <<>>]

SnapIdle ==
    /\ snFile = "none" /\ snData = NoData /\ snpc = "idle" /\ snOut = NoCookies

SleepIdle ==
    /\ slpc = "idle" /\ slSeconds = 0 /\ slStep = 0 /\ slNow = 0 /\ slDeadline = 0
    /\ slCancel = FALSE /\ slSlice = 0 /\ slChecks = 0 /\ slSlices = 0
    /\ slSeen = FALSE

CfIdle ==
    /\ cfpc = "idle" /\ cfPlaywright = FALSE /\ cfChannels = <<>>
    /\ cfCookieStore = FALSE /\ cfLaunches = 0 /\ cfCloses = 0 /\ cfUses = 0
    /\ cfExit = "none" /\ cfCalls = 0

NoArgs == [actor_name |-> "", old_code |-> "", new_code |-> "", new_title |-> ""]

EditIdle ==
    /\ edDb = TxEmpty /\ edBefore = TxEmpty /\ edArgs = NoArgs /\ edRet = "none"
    /\ edCalls = 0

NoUrl == 0

PgIdle ==
    /\ pgKind = "none" /\ pgSite = <<>> /\ pgUrl = NoUrl /\ pgPage = 0
    /\ pgFetched = <<>> /\ pgItems = <<>> /\ pgSeen = {} /\ pgpc = "idle"

CpIdle ==
    /\ cpFile = [state |-> "missing", data |-> EmptyDb] /\ cpLast = EmptyDb
    /\ cpOp = [op |-> "none", name |-> "none"] /\ cpRet = "none" /\ cpClock = 0

FwIdle ==
    /\ fwEnabled = {} /\ fwpc = "idle" /\ fwIdx = 0 /\ fwCancel = FALSE
    /\ fwChecker = "none" /\ fwSignals = <<>> /\ fwRan = <<>> /\ fwExit = "none"

NoIndex == 0 - 1
NoRound == [work |-> "", outcome |-> "none", parsed |-> <<>>, cancelAt |-> "never"]
ItIdle ==
    /\ itTable = <<>> /\ itIdx = 0 /\ itCkpt = NoIndex /\ itpc = "idle" /\ itLast = NoRound

MoreIdle == PgIdle /\ CpIdle /\ FwIdle /\ ItIdle

LateIdle == SnapIdle /\ SleepIdle /\ CfIdle /\ EditIdle /\ MoreIdle

ExtraIdle == FilterIdle /\ CookieIdle /\ TxIdle /\ LateIdle

DriverIdle ==
    /\ stage = "none" /\ mode = "httpx" /\ cookieOk = TRUE /\ filter = {}
    /\ db = EmptyDb /\ ckpt = [k \in StageKeys |-> NoCursor]
    /\ ckpt0 = [k \in StageKeys |-> NoCursor]
    /\ history = <<>> /\ cancel = FALSE /\ cancelAtStart = FALSE
    /\ pc = "idle" /\ failure = "none" /\ fetcherCreated = FALSE
    /\ actorItems = <<>> /\ ai = 1 /\ wi = 0
    /\ resumeActor = NoName /\ resumeIndex = 0 /\ resumeMode = FALSE
    /\ result = "none" /\ fetchLog = <<>> /\ writeLog = <<>>
    /\ faults = 0 /\ pageNo = 0
    /\ resumed = FALSE /\ prevWrites = {} /\ prevFetched = {}

(***************************************************************************)
(* Spec: one run of one crawl driver                                       *)
(***************************************************************************)
DbChoices == UNION { [S -> 1..MaxWorks] : S \in SUBSET NamePool }
CollectionChoices == { [n \in S |-> 1] : S \in SUBSET NamePool }
CursorChoices == {NoCursor} \cup [name : NamePool, index : 0..MaxWorks]
FilterChoices == { {} } \cup { {n} : n \in FilterPool }
NoCheckpoints == [k \in StageKeys |-> NoCursor]

Init ==
    /\ stage \in Stages
    /\ mode \in {"httpx", "browser"}
    /\ cookieOk \in BOOLEAN
    /\ cancel \in BOOLEAN
    /\ cancelAtStart = cancel
    /\ IF stage = "actors"
         THEN filter = {} /\ db = EmptyDb /\ ckpt0 = NoCheckpoints
         ELSE /\ filter \in FilterChoices
              /\ db \in (IF stage = "coll_works" THEN CollectionChoices ELSE DbChoices)
              /\ \E c \in CursorChoices : ckpt0 = [NoCheckpoints EXCEPT ![stage] = c]
    /\ ckpt = ckpt0
    /\ history = <<>>
    /\ pc = "start" /\ failure = "none" /\ fetcherCreated = FALSE
    /\ actorItems = <<>> /\ ai = 1 /\ wi = 0
    /\ resumeActor = NoName /\ resumeIndex = 0 /\ resumeMode = FALSE
    /\ result = "none" /\ fetchLog = <<>> /\ writeLog = <<>>
    /\ faults = 0 /\ pageNo = 0
    /\ resumed = FALSE /\ prevWrites = {} /\ prevFetched = {}
    /\ FetchIdle /\ StoreIdle /\ BlockIdle /\ ExtraIdle

Next ==
    \/ SetCancel
    \/ Fetcher_Call
    \/ Fetcher_Return
    \/ MJ_LoadSession
    \/ MJ_Prepare
    \/ MJ_NextActor
    \/ MJ_ItemCheck
    \/ MJ_Handle
    \/ MJ_Sleep
    \/ MJ_SaveCheckpoint
    \/ MJ_Clear
    \/ MJ_Record
    \/ CM_LoadSession
    \/ CM_Prepare
    \/ CM_NextActor
    \/ CM_ItemCheck
    \/ CM_Handle
    \/ CM_SaveCheckpoint
    \/ CM_Sleep
    \/ CM_Clear
    \/ CM_Record
    \/ CA_LoadSession
    \/ CA_CreateFetcher
    \/ CA_PageCheck
    \/ CA_Handle
    \/ CA_Sleep
    \/ CA_Save
    \/ CW_Prepare
    \/ CW_ItemCheck
    \/ CW_Crawl
    \/ CW_Save
    \/ CW_Clear
    \/ CW_Record

Spec == Init /\ [][Next]_vars


(***************************************************************************)
(* SpecResume: a magnets run on a fresh checkpoint store that is           *)
(* interrupted, and the same unfiltered stage run again (main.py starts    *)
(* the stage anew; checkpoint store, history and Storage persist).         *)
(***************************************************************************)
SeqToSet(q) == { q[i] : i \in 1..Len(q) }

Restart ==
    /\ pc \in {"cancelled", "failed"}
    /\ failure # "session"
    /\ ~resumed
    /\ resumed' = TRUE
    /\ prevWrites' = SeqToSet(writeLog)
    /\ prevFetched' = SeqToSet(fetchLog)
    /\ cancel' = FALSE
    /\ pc' = "start" /\ failure' = "none" /\ fetcherCreated' = FALSE
    /\ actorItems' = <<>> /\ ai' = 1 /\ wi' = 0
    /\ resumeActor' = NoName /\ resumeIndex' = 0 /\ resumeMode' = FALSE
    /\ result' = "none" /\ fetchLog' = <<>> /\ writeLog' = <<>>
    /\ faults' = 0 /\ pageNo' = 0
    /\ UNCHANGED <<ckpt, history, cfgVars, fetchVars, storeVars, blockVars, extraVars>>

InitResume ==
    /\ Init
    /\ stage \in {"magnets", "coll_magnets"}
    /\ cookieOk
    /\ filter = {}
    /\ ckpt0 = NoCheckpoints

NextResume ==
    \/ SetCancel
    \/ Fetcher_Call
    \/ Fetcher_Return
    \/ MJ_LoadSession
    \/ MJ_Prepare
    \/ MJ_NextActor
    \/ MJ_ItemCheck
    \/ MJ_Handle
    \/ MJ_Sleep
    \/ MJ_SaveCheckpoint
    \/ MJ_Clear
    \/ MJ_Record
    \/ CM_LoadSession
    \/ CM_Prepare
    \/ CM_NextActor
    \/ CM_ItemCheck
    \/ CM_Handle
    \/ CM_SaveCheckpoint
    \/ CM_Sleep
    \/ CM_Clear
    \/ CM_Record
    \/ Restart

SpecResume == InitResume /\ [][NextResume]_vars

\* every item of the candidate set, as <<target, work index>>
AllItems == { <<n, i>> : n \in DOMAIN db, i \in 0..(MaxWorks - 1) } \cap
            UNION { { <<n, i>> : i \in 0..(db[n] - 1) } : n \in DOMAIN db }

\* C1: checkpoint idempotence.  When a magnets run is interrupted after item N
\* was written to Storage and the same unfiltered stage is run again, no item
\* the interrupted run had written is fetched (or written) a second time, and
\* once the resumed run completes every item has been fetched by one of the
\* two runs (none is skipped).
C1_CheckpointIdempotence ==
    resumed =>
        /\ prevWrites \cap SeqToSet(fetchLog) = {}
        /\ prevWrites \cap SeqToSet(writeLog) = {}
        /\ (pc = "done" => AllItems \subseteq (prevFetched \cup SeqToSet(fetchLog)))


\* the items of a target that have been handled: written to Storage by either
\* run, or (run_magnet_jobs) fetched and skipped after a logged failure
Handled ==
    IF stage = "coll_magnets"
      THEN prevWrites \cup SeqToSet(writeLog)
      ELSE prevWrites \cup SeqToSet(writeLog) \cup prevFetched \cup SeqToSet(fetchLog)
LastOf(q) == IF q = <<>> THEN <<NoName, -1>> ELSE q[Len(q)]

\* C29: in the magnet stages a checkpoint {target, k} is written only right after
\* the Storage transaction of item k-1 of that target committed, or in
\* run_magnet_jobs after that item failed and was skipped; and at every moment,
\* across an interrupted run and its resumption, every item of the target below
\* the stored index has been handled.
C29_CheckpointBehindData ==
    /\ [][(ckpt'[stage] # ckpt[stage] /\ ckpt'[stage] # NoCursor) =>
            LET c == ckpt'[stage]
                item == <<c.name, c.index - 1>>
            IN /\ c.index >= 1 /\ item \in AllItems
               /\ \/ LastOf(writeLog) = item
                  \/ (stage = "magnets" /\ LastOf(fetchLog) = item
                        /\ result \in {"ok", "error"}
                        /\ item \notin SeqToSet(writeLog))]_vars
    /\ [](ckpt[stage] # NoCursor =>
            \A j \in 0..(ckpt[stage].index - 1) : <<ckpt[stage].name, j>> \in Handled)

\* a resumed run_magnet_jobs that has written item 1 of a target whose item 0
\* the interrupted run wrote, the cursor standing at 2
C29_Witness ==
    /\ stage = "magnets" /\ resumed /\ ckpt["magnets"].index = 2
    /\ <<ckpt["magnets"].name, 0>> \in prevWrites
    /\ LastOf(writeLog) = <<ckpt["magnets"].name, 1>>

\* a cursor written after a skipped failure, and one written by
\* run_collection_magnets
C29_WitnessSkipped ==
    /\ stage = "magnets" /\ ckpt["magnets"].index = 1 /\ writeLog = <<>>
    /\ ~resumed /\ Len(fetchLog) = 1

C29_WitnessCollection ==
    /\ stage = "coll_magnets" /\ resumed /\ ckpt["coll_magnets"].index = 2
    /\ Len(writeLog) = 1 /\ Cardinality(prevWrites) = 1

(***************************************************************************)
(* Claims about the drivers (checked under Spec)                           *)
(***************************************************************************)
\* the session snapshot is usable by the stage: it loads, or the stage swallows the failure
SessionLoads == cookieOk \/ (stage \in {"actors", "coll_magnets"} /\ mode = "browser")
\* the stage has at least one target after filtering
HasTargets == stage = "actors" \/ DOMAIN ApplyWorkFilters(db, filter) # {}

\* C3 as stated: with the cancellation predicate true from the start, run_magnet_jobs
\* and crawl_all_pages raise CancelledError, never call fetch, write nothing to
\* Storage and leave the checkpoint store as it was.
C3_CancelFromStartAsStated ==
    (cancelAtStart /\ stage \in {"magnets", "actors"} /\ pc \in Terminal) =>
        /\ pc = "cancelled"
        /\ fetchLog = <<>> /\ writeLog = <<>> /\ ckpt = ckpt0

\* C3 amended: with the cancellation predicate true from the start, fetch is never
\* called, nothing is written to Storage and the checkpoint store stays as it was;
\* the stage raises CancelledError whenever its session snapshot loads and it has at
\* least one target (otherwise it ends on the session failure or returns early).
C3_CancelFromStart ==
    (cancelAtStart /\ stage \in {"magnets", "actors"}) =>
        /\ fetchLog = <<>> /\ writeLog = <<>> /\ ckpt = ckpt0 /\ history = <<>>
        /\ pc \notin {"done", "clear", "record", "save"}
        /\ (pc \in Terminal /\ SessionLoads /\ HasTargets) => pc = "cancelled"
        /\ (pc \in Terminal /\ ~SessionLoads) => (pc = "failed" /\ failure = "session")
        /\ (pc \in Terminal /\ SessionLoads /\ ~HasTargets) => pc = "returned"

C3_Witness ==
    /\ cancelAtStart /\ stage = "magnets" /\ pc = "cancelled"
    /\ fetcherCreated /\ ckpt0["magnets"] # NoCursor /\ Len(actorItems) >= 2

\* C4: a blocked FetchResult aborts the stage with a raised failure; from the moment
\* the blocked result is returned nothing is parsed or written to Storage, the
\* checkpoint is not advanced or cleared, no further fetch is made and no history
\* record is appended.
C4_BlockedAborts ==
    /\ []((stage \in {"magnets", "coll_magnets", "actors"} /\ result = "blocked")
            => (pc \in {"fetched", "failed"} /\ (pc = "failed" => failure = "blocked")))
    /\ [][(stage \in {"magnets", "coll_magnets", "actors"} /\ result = "blocked")
            => (writeLog' = writeLog /\ ckpt' = ckpt /\ history' = history
                /\ fetchLog' = fetchLog /\ pc' \in {"fetched", "failed"})]_vars

C4_Witness ==
    /\ result = "blocked" /\ pc = "failed" /\ failure = "blocked"
    /\ stage = "magnets" /\ Len(writeLog) >= 1 /\ ckpt # ckpt0

\* item order of a resumed run: by lower-cased target name, then by work index
ItemBefore(x, y) ==
    \/ Lower(x[1]) < Lower(y[1])
    \/ (x[1] = y[1] /\ x[2] < y[2])

\* the items a run resumed at cursor c has to process
ItemsFrom(c) ==
    { it \in AllItems : Lower(it[1]) > Lower(c.name) \/ (it[1] = c.name /\ it[2] >= c.index) }

\* C8: resume in run_magnet_jobs.  Started without a scope filter on a checkpoint
\* {actor: A, index: k} with A a candidate, the run fetches exactly the items from
\* (A, k) on, in case-insensitive name order then index order: nothing ordered
\* before A, nothing of A below k, every later target from index 0, no gaps.
C8_ResumeOrder ==
    LET c == ckpt0["magnets"]
    IN (stage = "magnets" /\ filter = {} /\ c # NoCursor /\ c.name \in DOMAIN db) =>
        /\ \A p \in 1..Len(fetchLog) : fetchLog[p] \in ItemsFrom(c)
        /\ \A p \in 1..Len(fetchLog) :
             \A it \in ItemsFrom(c) :
                ItemBefore(it, fetchLog[p]) => \E q \in 1..(p - 1) : fetchLog[q] = it
        /\ \A p, q \in 1..Len(fetchLog) : p < q => ItemBefore(fetchLog[p], fetchLog[q])
        /\ pc = "done" => ItemsFrom(c) \subseteq SeqToSet(fetchLog)

C8_Witness ==
    /\ stage = "magnets" /\ filter = {} /\ pc = "done"
    /\ ckpt0["magnets"] = [name |-> 97, index |-> 1]
    /\ DOMAIN db = NamePool /\ db[97] = 2
    /\ fetchLog[1] = <<97, 1>> /\ fetchLog[2] = <<66, 0>>

\* C9: a stage run that gets through its loop without raising deletes its
\* checkpoint entry and appends exactly one history record; a run that ends by a
\* failure or by cancellation appends nothing and never deletes the entry.
C9_CleanCompletion ==
    /\ []((stage \in StageKeys /\ pc = "done")
            => (ckpt[stage] = NoCursor /\ history = <<stage>>))
    /\ []((stage \in StageKeys /\ pc \in {"failed", "cancelled"})
            => (history = <<>> /\ (ckpt0[stage] # NoCursor => ckpt[stage] # NoCursor)))
    /\ [][(stage \in StageKeys /\ ckpt[stage] # NoCursor /\ ckpt'[stage] = NoCursor)
            => (pc = "clear" /\ pc' = "record")]_vars
    /\ [][(stage \in StageKeys /\ pc' \in {"failed", "cancelled"})
            => (ckpt' = ckpt /\ history' = history)]_vars

C9_Witness ==
    /\ stage = "coll_magnets" /\ pc = "done" /\ ckpt0["coll_magnets"] # NoCursor
    /\ Len(writeLog) >= 2 /\ history = <<"coll_magnets">>

C9_WitnessInterrupted ==
    /\ stage = "magnets" /\ pc = "cancelled" /\ ckpt["magnets"] # NoCursor
    /\ ckpt0["magnets"] = NoCursor /\ history = <<>>

\* C10: an invalid session snapshot fails fast in both transport modes: the stage
\* (crawl_all_pages, run_magnet_jobs) raises the session failure before
\* create_fetcher is called, so no fetcher is created and no fetch is made.
C10_InvalidSessionFailsFast ==
    (~cookieOk /\ stage \in {"actors", "magnets"}) =>
        /\ ~fetcherCreated
        /\ fetchLog = <<>>
        /\ pc \in Terminal => (pc = "failed" /\ failure = "session")

\* C30: a magnets run that completes has entered at least one target, and has
\* fetched every item of every candidate target that sorts after the checkpointed
\* target, also when the checkpointed target is not among the candidates.
C30_ResumeWithoutTarget ==
    (stage \in {"magnets", "coll_magnets"} /\ pc = "done") =>
        /\ ~resumeMode
        /\ \A p \in 1..Len(actorItems) :
              (resumeActor # NoName /\ Lower(actorItems[p]) > Lower(resumeActor)) =>
                  \A i \in 0..(db[actorItems[p]] - 1) :
                      <<actorItems[p], i>> \in SeqToSet(fetchLog)

\* C31: a run_magnet_jobs run with a scope filter starts at the first item of its
\* first filtered target whatever the stored checkpoint says, and leaves the
\* "magnets" checkpoint entry as it was before the run.
C31_FilteredRunKeepsCheckpoint ==
    (stage = "magnets" /\ filter # {}) =>
        /\ resumeActor = NoName /\ resumeIndex = 0 /\ ~resumeMode
        /\ fetchLog # <<>> => fetchLog[1] = <<actorItems[1], 0>>
        /\ ckpt["magnets"] = ckpt0["magnets"]

\* C33: run_collect_actors writes to Storage only after crawl_all_pages has
\* returned: Storage is written in the one step that follows the crawl, and a run
\* in which a page was blocked, failed or was cancelled leaves Storage as it
\* was, whatever the earlier pages held.
C33_DiscoveryAllOrNothing ==
    /\ [](stage = "actors" =>
            /\ writeLog # <<>> => (pc = "done" /\ failure = "none" /\ result = "ok")
            /\ pc \in {"failed", "cancelled"} => writeLog = <<>>)
    /\ [][(stage = "actors" /\ writeLog' # writeLog) => (pc = "save" /\ pc' = "done")]_vars

\* a block on the third page, after two pages were parsed
C33_Witness ==
    /\ stage = "actors" /\ pc = "failed" /\ failure = "blocked"
    /\ Len(fetchLog) = 3 /\ writeLog = <<>>

C33_WitnessCancelled ==
    /\ stage = "actors" /\ pc = "cancelled" /\ Len(fetchLog) = 2 /\ writeLog = <<>>

C33_WitnessSaved ==
    /\ stage = "actors" /\ pc = "done" /\ Len(fetchLog) = 2 /\ writeLog # <<>>

MaxTitleLen == 1
MaxHtmlLen == 2

TokenPool == {"cloudflare", "CLOUDFLARE", " ray id", "Attention Required",
              "cf-wrapper", "Sorry, you have been blocked", "ok"}
StatusPool == {StatusNone, 200, 403}

TextsUpTo(n) == UNION { [1..k -> TokenPool] : k \in 0..n }

\* str.lower() on one token
LowerToken(t) ==
    CASE t = "CLOUDFLARE" -> "cloudflare"
      [] t = "Attention Required" -> "attention required"
      [] t = "Sorry, you have been blocked" -> "sorry, you have been blocked"
      [] OTHER -> t

\* str.lower() on a text
str_lowerMutant(text) == text

str_lower(text) == [i \in 1..Len(text) |-> LowerToken(text[i])]

\* the "in" operator on texts: marker occurs as a contiguous piece of text
Contains(text, marker) ==
    \E i \in 1..(Len(text) - Len(marker) + 1) :
        SubSeq(text, i, i + Len(marker) - 1) = marker

TitleMarkers == { <<"cloudflare">>, <<"attention required">> }
\* patterns, in the order of the tuple
BodyPatterns == << <<"cf-wrapper">>,
                   <<"sorry, you have been blocked">>,
                   <<"cloudflare", " ray id">> >>
PatternName(k) ==
    CASE k = 1 -> "html:cf-wrapper"
      [] k = 2 -> "html:sorry, you have been blocked"
      [] k = 3 -> "html:cloudflare ray id"

RECURSIVE FirstPattern(_, _)
\* the for loop over patterns: index of the first pattern found in body, 0 if none
FirstPattern(body, k) ==
    IF k > Len(BodyPatterns) THEN 0
    ELSE IF Contains(body, BodyPatterns[k]) THEN k
    ELSE FirstPattern(body, k + 1)

is_blocked_page(html, title, status_code) ==
    IF status_code = 403 THEN <<TRUE, "status_403">>
    ELSE LET title_lower == str_lower(title)
             body_lower == str_lower(html)
             k == FirstPattern(body_lower, 1)
         IN IF \E m \in TitleMarkers : Contains(title_lower, m)
              THEN <<TRUE, "title_cloudflare">>
            ELSE IF k # 0 THEN <<TRUE, PatternName(k)>>
            ELSE <<FALSE, "none">>

IsBlockedPage_Call ==
    /\ bresult = <<>>
    /\ bresult' = is_blocked_page(bhtml, btitle, bstatus)
    /\ UNCHANGED <<bhtml, btitle, bstatus>>
    /\ UNCHANGED <<driverVars, fetchVars, storeVars, extraVars>>

\* the same page is examined once more
IsBlockedPage_Again ==
    /\ bresult # <<>>
    /\ bresult' = <<>>
    /\ UNCHANGED <<bhtml, btitle, bstatus>>
    /\ UNCHANGED <<driverVars, fetchVars, storeVars, extraVars>>

InitBlock ==
    /\ DriverIdle /\ FetchIdle /\ StoreIdle /\ ExtraIdle
    /\ bhtml \in TextsUpTo(MaxHtmlLen)
    /\ btitle \in TextsUpTo(MaxTitleLen)
    /\ bstatus \in StatusPool
    /\ bresult = <<>>

NextBlock == IsBlockedPage_Call \/ IsBlockedPage_Again

SpecBlock == InitBlock /\ [][NextBlock]_vars

\* the text holds the words of marker, in any letter case, one after the other
HasWords(text, marker) ==
    \E i \in 1..Len(text) :
        /\ i + Len(marker) - 1 <= Len(text)
        /\ \A j \in 1..Len(marker) : LowerToken(text[i + j - 1]) = marker[j]

TitleHit == HasWords(btitle, <<"cloudflare">>) \/ HasWords(btitle, <<"attention required">>)
BodyHit1 == HasWords(bhtml, <<"cf-wrapper">>)
BodyHit2 == HasWords(bhtml, <<"sorry, you have been blocked">>)
BodyHit3 == HasWords(bhtml, <<"cloudflare", " ray id">>)

\* C7: is_blocked_page follows a fixed precedence, first match wins: status 403,
\* then a title holding "cloudflare" or "attention required" in any letter case,
\* then the first body marker in the fixed order, else (false, none).
C7_BlockPrecedence ==
    bresult # <<>> =>
        /\ bstatus = 403 => bresult = <<TRUE, "status_403">>
        /\ (bstatus # 403 /\ TitleHit) => bresult = <<TRUE, "title_cloudflare">>
        /\ (bstatus # 403 /\ ~TitleHit /\ BodyHit1) => bresult = <<TRUE, "html:cf-wrapper">>
        /\ (bstatus # 403 /\ ~TitleHit /\ ~BodyHit1 /\ BodyHit2)
             => bresult = <<TRUE, "html:sorry, you have been blocked">>
        /\ (bstatus # 403 /\ ~TitleHit /\ ~BodyHit1 /\ ~BodyHit2 /\ BodyHit3)
             => bresult = <<TRUE, "html:cloudflare ray id">>
        /\ (bstatus # 403 /\ ~TitleHit /\ ~BodyHit1 /\ ~BodyHit2 /\ ~BodyHit3)
             => bresult = <<FALSE, "none">>

\* a page whose body holds two markers, the later one of the fixed order first
C7_Witness ==
    /\ bstatus = 200
    /\ btitle = <<"ok">>
    /\ bhtml = <<"Sorry, you have been blocked", "cf-wrapper">>
    /\ bresult = <<TRUE, "html:cf-wrapper">>

C7_WitnessTitle ==
    /\ bstatus = StatusNone /\ btitle = <<"Attention Required">>
    /\ bhtml = <<"cf-wrapper">> /\ bresult = <<TRUE, "title_cloudflare">>

(***************************************************************************)
(* SpecStore: Storage.save_magnets and Storage.save_collection_magnets     *)
(*                                                                         *)
(* A record is [href |-> uri]; the uri "" stands for a missing or empty    *)
(* one and " m1" for a uri with surrounding white space.  The record list  *)
(* of a call holds no uri twice, as parse_magnets delivers it.             *)
(***************************************************************************)
MaxMagnets == 3

UriPool == {"", " m1", "m2", "m3"}
WorkPool == {"w1", "w2"}
StoreApis == {"save_magnets", "save_collection_magnets"}

\* str.strip()
strip(u) == IF u = " m1" THEN "m1" ELSE u

RecordLists ==
    { M \in UNION { [1..k -> [href : UriPool]] : k \in 0..MaxMagnets } :
        \A i, j \in 1..Len(M) : M[i].href = M[j].href => i = j }

\* _normalize_magnet_record: the stripped uri, or NoRecord for a record to drop
NoRecord == "<none>"
normalize_magnet_record(record) ==
    LET magnet == strip(record.href)
    IN IF magnet = "" THEN NoRecord ELSE magnet

RECURSIVE Normalized(_)
\* the loop collecting the normalized entries of the records, in order
Normalized(M) ==
    IF M = <<>> THEN <<>>
    ELSE LET entry == normalize_magnet_record(Head(M))
         IN IF entry # NoRecord THEN <<entry>> \o Normalized(Tail(M))
            ELSE Normalized(Tail(M))

\* DELETE FROM <table> WHERE work_id = ?
DeleteWhereWorkMutant(table, work_id) == table

DeleteWhereWork(table, work_id) ==
    SelectSeq(table, LAMBDA row : row[1] # work_id)

\* executemany INSERT INTO <table> (work_id, magnet, ...) VALUES ...
InsertMany(table, work_id, normalized) ==
    table \o [i \in 1..Len(normalized) |-> <<work_id, normalized[i]>>]

\* the magnets stored for a work, in row order
RowsOf(table, work_id) ==
    LET rows == SelectSeq(table, LAMBDA row : row[1] = work_id)
    IN [i \in 1..Len(rows) |-> rows[i][2]]

Storage_save_magnets ==
    /\ storeApi = "save_magnets"
    /\ \E code \in WorkPool, M \in RecordLists :
         LET normalized == Normalized(M)
         IN /\ works' = works \cup {<<"save_magnets", code>>}
            /\ magnets' = InsertMany(DeleteWhereWork(magnets, code), code, normalized)
            /\ lastSave' = [work |-> code, M |-> M,
                            before |-> Len(RowsOf(magnets, code)),
                            ret |-> Len(normalized)]
    /\ UNCHANGED <<storeApi, collMagnets>>
    /\ UNCHANGED <<driverVars, fetchVars, blockVars, extraVars>>

Storage_save_collection_magnets ==
    /\ storeApi = "save_collection_magnets"
    /\ \E code \in WorkPool, M \in RecordLists :
         LET normalized == Normalized(M)
         IN /\ works' = works \cup {<<"save_collection_magnets", code>>}
            /\ collMagnets' =
                 InsertMany(DeleteWhereWork(collMagnets, code), code, normalized)
            /\ lastSave' = [work |-> code, M |-> M,
                            before |-> Len(RowsOf(collMagnets, code)),
                            ret |-> Len(normalized)]
    /\ UNCHANGED <<storeApi, magnets>>
    /\ UNCHANGED <<driverVars, fetchVars, blockVars, extraVars>>

InitStore ==
    /\ DriverIdle /\ FetchIdle /\ BlockIdle /\ ExtraIdle
    /\ storeApi \in StoreApis
    /\ magnets = <<>> /\ collMagnets = <<>> /\ works = {}
    /\ lastSave = NoSave

NextStore == Storage_save_magnets \/ Storage_save_collection_magnets

SpecStore == InitStore /\ [][NextStore]_vars

\* the table the run writes
StoredTable == IF storeApi = "save_magnets" THEN magnets ELSE collMagnets

\* the well-formed records of a list: those with a non-empty uri, white space removed
WellFormed(M) ==
    LET keep == SelectSeq(M, LAMBDA r : r.href # "")
    IN [i \in 1..Len(keep) |-> IF keep[i].href = " m1" THEN "m1" ELSE keep[i].href]

\* C2: after save_magnets / save_collection_magnets for work W with record list M,
\* the magnets stored for W are exactly the well-formed records of M, whatever was
\* stored before; the call returns their number and creates the work row.
C2_MagnetReplacement ==
    lastSave # NoSave =>
        /\ RowsOf(StoredTable, lastSave.work) = WellFormed(lastSave.M)
        /\ lastSave.ret = Len(WellFormed(lastSave.M))
        /\ <<storeApi, lastSave.work>> \in works

\* a work that held 3 magnets is saved with an empty list and holds none
C2_Witness ==
    /\ lastSave # NoSave /\ lastSave.M = <<>> /\ lastSave.before = 3
    /\ RowsOf(StoredTable, lastSave.work) = <<>>
    /\ storeApi = "save_magnets"

C2_WitnessCollection ==
    /\ lastSave # NoSave /\ lastSave.before = 3 /\ Len(lastSave.M) = 2
    /\ lastSave.M[1].href = "" /\ lastSave.M[2].href = " m1"
    /\ RowsOf(StoredTable, lastSave.work) = <<"m1">>
    /\ storeApi = "save_collection_magnets"

(***************************************************************************)
(* SpecFetch: PlaywrightPageFetcher.fetch and its challenge wait           *)
(*                                                                         *)
(* Time is counted in seconds; one wait_for_selector poll lasts at most    *)
(* PollSeconds (timeout = max(200, min(1000, remaining)) milliseconds).    *)
(***************************************************************************)
ChallengeTimeout == 3    \* config.challenge_timeout_seconds, scaled down
MaxClock == 5            \* the clock is not followed beyond this

FetchReturn(how) == fpc' = "returned" /\ freturn' = how
FetchRaise(what) == fpc' = "raised" /\ freturn' = what

\* the cancellation predicate turns true while fetch runs
Fetch_SetCancel ==
    /\ fpc \in {"start", "loaded", "waiting", "polling", "recapture"}
    /\ ~fcancel
    /\ fcancel' = TRUE
    /\ UNCHANGED <<fpc, fnow, fdeadline, fselector, fblocked, freturn, fwait,
                   fpolls, fdumps, fresult, fdump>>
    /\ UNCHANGED <<driverVars, storeVars, blockVars, extraVars>>

\* time passes between two statements of the wait loop
Fetch_Tick ==
    /\ fpc = "waiting"
    /\ fnow < MaxClock
    /\ fnow' = fnow + 1
    /\ UNCHANGED <<fpc, fdeadline, fselector, fcancel, fblocked, freturn, fwait,
                   fpolls, fdumps, fresult, fdump>>
    /\ UNCHANGED <<driverVars, storeVars, blockVars, extraVars>>

\* ensure_not_cancelled(); response = self._page.goto(...)
Fetch_Goto ==
    /\ fpc = "start"
    /\ IF fcancel THEN FetchRaise("CancelledError") ELSE (fpc' = "loaded" /\ freturn' = freturn)
    /\ UNCHANGED <<fnow, fdeadline, fselector, fcancel, fblocked, fwait, fpolls, fdumps,
                   fresult, fdump>>
    /\ UNCHANGED <<driverVars, storeVars, blockVars, extraVars>>

\* the pages self._page can show when it is captured: a normal page, a page with
\* a block marker in the html, a page with a block marker in the title
PagePool ==
    { [html |-> <<"ok">>, title |-> <<"ok">>],
      [html |-> <<"cf-wrapper">>, title |-> <<"ok">>],
      [html |-> <<"ok">>, title |-> <<"CLOUDFLARE">>] }

\* _capture_result: content and title read from the page, the status of the
\* response (StatusNone for response None), is_blocked_page on the three; capture
\* counts the captures of this fetch
capture_result(page, status_code, n) ==
    LET verdict == is_blocked_page(page.html, page.title, status_code)
    IN [status_code |-> status_code, html |-> page.html, title |-> page.title,
        blocked |-> verdict[1], blocked_reason |-> verdict[2], capture |-> n]

\* what can go wrong inside one _dump_debug call: nothing, debug_dir.mkdir raises,
\* html_path.write_text raises, self._page.screenshot raises
DumpEvents == {"done", "mkdir_raises", "write_text_raises", "screenshot_raises"}

\* _dump_debug: mkdir and write_text run outside any try, the screenshot inside
\* "try ... except Exception: pass"; the value is the exception that leaves
\* _dump_debug, "none" when it returns
dump_debug(event) ==
    IF event \in {"mkdir_raises", "write_text_raises"} THEN "OSError" ELSE "none"

\* "self._dump_debug(stage=stage, result=result); return result": no caller in
\* fetch wraps the dump, so what leaves _dump_debug leaves fetch
DumpAndReturn(event) ==
    /\ fdump' = event
    /\ fdumps' = fdumps + 1
    /\ IF dump_debug(event) = "none"
         THEN FetchReturn("blocked")
         ELSE FetchRaise(dump_debug(event))

\* "if result.blocked and expected_selector"
EntersWaitMutant(blocked, selector) == blocked

EntersWait(blocked, selector) == blocked /\ selector

\* ensure_not_cancelled(); result = _capture_result(url, response); then either the
\* wait is entered (deadline computed) or the result is returned
Fetch_Capture ==
    /\ fpc = "loaded"
    /\ IF fcancel
         THEN /\ FetchRaise("CancelledError")
              /\ UNCHANGED <<fblocked, fdeadline, fwait, fdumps, fresult, fdump>>
         ELSE \E page \in PagePool, status \in StatusPool :
                LET captured == capture_result(page, status, 1)
                    blocked == captured.blocked
                IN /\ fresult' = captured
                   /\ fblocked' = blocked
                   /\ IF EntersWait(blocked, fselector)
                        THEN /\ fdeadline' = fnow + ChallengeTimeout
                             /\ fwait' = "waiting"
                             /\ fpc' = "waiting" /\ freturn' = freturn
                             /\ UNCHANGED <<fdumps, fdump>>
                        ELSE /\ IF blocked
                                  THEN \E event \in DumpEvents : DumpAndReturn(event)
                                  ELSE FetchReturn("ok") /\ UNCHANGED <<fdumps, fdump>>
                             /\ UNCHANGED <<fdeadline, fwait>>
    /\ UNCHANGED <<fnow, fselector, fcancel, fpolls>>
    /\ UNCHANGED <<driverVars, storeVars, blockVars, extraVars>>

\* an except clause that returns the blocked result without the dump
WaitExceptMutant(exc) == FetchReturn("blocked") /\ UNCHANGED <<fdumps, fdump>>

\* what the except clauses around the wait loop do with an exception raised in it:
\* "except PlaywrightTimeoutError" and "except Exception" both dump and return the
\* blocked result
WaitExcept(exc) == \E event \in DumpEvents : DumpAndReturn(event)

\* head of the wait loop: ensure_not_cancelled(); remaining = deadline - now;
\* if remaining <= 0: raise PlaywrightTimeoutError
Fetch_WaitCheck ==
    /\ fpc = "waiting"
    /\ IF fcancel
         THEN /\ WaitExcept("CancelledError")
              /\ fwait' = "cancelled"
         ELSE IF fdeadline - fnow <= 0
         THEN /\ WaitExcept("PlaywrightTimeoutError")
              /\ fwait' = "deadline"
         ELSE /\ fpc' = "polling"
              /\ UNCHANGED <<freturn, fwait, fdumps, fdump>>
    /\ UNCHANGED <<fnow, fdeadline, fselector, fcancel, fblocked, fpolls, fresult>>
    /\ UNCHANGED <<driverVars, storeVars, blockVars, extraVars>>

\* timeout of one poll, in seconds
PollSeconds == IF fdeadline - fnow < 1 THEN fdeadline - fnow ELSE 1

\* self._page.wait_for_selector(expected_selector, timeout=...): the selector
\* appears (break, leave the loop) or the poll times out (PlaywrightTimeoutError,
\* raised out of the loop into the except clause)
Fetch_Poll ==
    /\ fpc = "polling"
    /\ fpolls' = fpolls + 1
    /\ \/ /\ \E spent \in 0..PollSeconds : fnow' = fnow + spent
          /\ fwait' = "appeared"
          /\ fpc' = "recapture"
          /\ UNCHANGED <<freturn, fdumps, fdump>>
       \/ /\ fnow' = fnow + PollSeconds
          /\ WaitExcept("PlaywrightTimeoutError")
          /\ fwait' = "poll_timeout"
    /\ UNCHANGED <<fdeadline, fselector, fcancel, fblocked, fresult>>
    /\ UNCHANGED <<driverVars, storeVars, blockVars, extraVars>>

\* result = _capture_result(url, response=None); dump if still blocked; return
Fetch_Recapture ==
    /\ fpc = "recapture"
    /\ \E page \in PagePool :
         LET captured == capture_result(page, StatusNone, 2)
             blocked == captured.blocked
         IN /\ fresult' = captured
            /\ fblocked' = blocked
            /\ IF blocked
                 THEN \E event \in DumpEvents : DumpAndReturn(event)
                 ELSE FetchReturn("ok") /\ UNCHANGED <<fdumps, fdump>>
    /\ UNCHANGED <<fnow, fdeadline, fselector, fcancel, fwait, fpolls>>
    /\ UNCHANGED <<driverVars, storeVars, blockVars, extraVars>>

InitFetch ==
    /\ DriverIdle /\ StoreIdle /\ BlockIdle /\ ExtraIdle
    /\ fpc = "start"
    /\ fnow \in 0..1
    /\ fdeadline = 0
    /\ fselector \in BOOLEAN
    /\ fcancel \in BOOLEAN
    /\ fblocked = FALSE /\ freturn = "none" /\ fwait = "none"
    /\ fpolls = 0 /\ fdumps = 0 /\ fresult = NoResult /\ fdump = "none"

NextFetch ==
    \/ Fetch_SetCancel
    \/ Fetch_Tick
    \/ Fetch_Goto
    \/ Fetch_Capture
    \/ Fetch_WaitCheck
    \/ Fetch_Poll
    \/ Fetch_Recapture

SpecFetch == InitFetch /\ [][NextFetch]_vars

\* C5: the challenge wait keeps polling until the selector appears or the deadline
\* is reached; a poll that times out before the deadline does not end the wait, so
\* a wait that ends without the selector (and without cancellation) ends at or
\* after the deadline.
C5_WaitUntilDeadline ==
    (fwait \in {"poll_timeout", "deadline"}) => fnow >= fdeadline

\* C6: when the cancellation predicate is found true inside the challenge-wait
\* loop, fetch raises CancelledError and does not return a blocked result.
C6_CancelInWaitRaises ==
    (fwait = "cancelled") => (fpc = "raised" /\ freturn = "CancelledError")

\* C19: when the selector appears during the challenge wait, fetch returns a
\* result captured after the wait, with status_code None and blocked false.
C19_ResolvedResult ==
    (fpc = "returned" /\ fwait = "appeared") =>
        /\ fresult.capture = 2
        /\ fresult.status_code = StatusNone
        /\ fresult.blocked = FALSE /\ freturn = "ok"

\* C21: the debug dump is never fatal: whatever fails inside _dump_debug (creating
\* the directory, writing the html file, taking the screenshot), fetch still
\* returns the blocked FetchResult.
C21_DumpNeverFatal ==
    (fdump # "none") => (fpc = "returned" /\ freturn = "blocked" /\ fresult.blocked)

\* C20: a blocked first capture without expected selector is returned without
\* entering the wait (no wait_for_selector call), and a first capture that is not
\* blocked is returned without waiting, with or without selector.
C20_NoWaitUnlessBlockedWithSelector ==
    /\ ~fselector =>
         /\ fwait = "none" /\ fpolls = 0
         /\ fpc \notin {"waiting", "polling", "recapture"}
         /\ fpc = "returned" =>
              (/\ fresult.capture = 1
               /\ freturn = (IF fresult.blocked THEN "blocked" ELSE "ok"))
    /\ (fresult.capture = 1 /\ ~fresult.blocked) =>
         /\ fwait = "none" /\ fpolls = 0
         /\ fpc = "returned" /\ freturn = "ok"

\* a blocked first capture returned at once for want of a selector
C20_Witness ==
    /\ fpc = "returned" /\ ~fselector /\ freturn = "blocked"
    /\ fresult.capture = 1 /\ fresult.blocked /\ fresult.status_code = 403

\* a first capture that is not blocked returned although a selector was supplied
C20_WitnessSelector ==
    /\ fpc = "returned" /\ fselector /\ freturn = "ok"
    /\ fresult.capture = 1 /\ ~fresult.blocked

\* the dump of this fetch call was produced: _dump_debug was called and returned
DumpProduced == fdumps >= 1 /\ dump_debug(fdump) = "none"

\* C38: _dump_debug is called at most once per fetch call; a fetch that returned
\* produced a dump exactly when the returned result is blocked (after a wait that
\* timed out, on a blocked first capture without selector, on a second capture
\* that is still blocked), and a produced dump means fetch returns blocked; no
\* dump is made while fetch has not ended or when the returned result is not
\* blocked.
C38_DumpIffBlocked ==
    /\ fdumps <= 1
    /\ fpc \notin {"returned", "raised"} => fdumps = 0
    /\ fpc = "returned" =>
          /\ DumpProduced <=> fresult.blocked
          /\ fresult.blocked <=> (freturn = "blocked")
          /\ ~fresult.blocked => (fdumps = 0 /\ fdump = "none")
    /\ DumpProduced => (fpc = "returned" /\ freturn = "blocked")

\* a blocked result returned with its dump after the wait ran to the deadline
C38_Witness ==
    /\ fpc = "returned" /\ freturn = "blocked" /\ fwait \in {"deadline", "poll_timeout"}
    /\ fdumps = 1 /\ fdump = "done"

\* a blocked first capture without selector, dumped once and returned
C38_WitnessImmediate ==
    /\ fpc = "returned" /\ freturn = "blocked" /\ ~fselector /\ fresult.capture = 1
    /\ fdumps = 1 /\ DumpProduced

\* the selector appeared and the second capture is still blocked: dumped once
C38_WitnessRecaptured ==
    /\ fpc = "returned" /\ freturn = "blocked" /\ fwait = "appeared"
    /\ fresult.capture = 2 /\ fdumps = 1 /\ DumpProduced

\* a result that is not blocked returned after a wait, without any dump
C38_WitnessNoDump ==
    /\ fpc = "returned" /\ freturn = "ok" /\ fwait = "appeared" /\ fdumps = 0

(***************************************************************************)
(* SpecFilter: the scope filter _apply_work_filters                        *)
(*                                                                         *)
(* A work is represented by its code, a code by the sequence of its        *)
(* character codes: "AB" = <<65, 66>>, "BA" = <<66, 65>>, "aB" = <<97, 66>>*)
(***************************************************************************)
MaxFilterWorks == 2

CodePool == { <<65, 66>>, <<66, 65>>, <<97, 66>> }
KeywordPool == { <<65>>, <<97, 66>> }
FilterNamePool == {66, 97}
ActorFilterChoices == { <<>>, <<66>>, <<97>>, <<122>>, <<97, 66>> }
KeywordChoices == { <<>> } \cup { <<k>> : k \in KeywordPool }
WorkLists == UNION { [1..k -> CodePool] : k \in 0..MaxFilterWorks }
AllWorksChoices == UNION { [S -> WorkLists] : S \in SUBSET FilterNamePool }

\* str.upper()
Upper(ch) == IF ch \in 97..122 THEN ch - 32 ELSE ch
str_upper(text) == [i \in 1..Len(text) |-> Upper(text[i])]

\* str.startswith()
StartsWith(text, prefix) ==
    Len(prefix) <= Len(text) /\ SubSeq(text, 1, Len(prefix)) = prefix

\* _filter_works_by_code_keywords
filter_works_by_code_keywords(works_, keywords) ==
    IF keywords = <<>> THEN works_
    ELSE SelectSeq(works_, LAMBDA code :
            \E i \in 1..Len(keywords) :
                Contains(str_upper(code), str_upper(keywords[i])))

\* _filter_works_by_series_prefixes
filter_works_by_series_prefixes(works_, prefixes) ==
    IF prefixes = <<>> THEN works_
    ELSE SelectSeq(works_, LAMBDA code :
            \E i \in 1..Len(prefixes) :
                StartsWith(str_upper(code), str_upper(prefixes[i])))

\* the if-chain of _apply_work_filters: which filter kind is applied
FilterKindMutant(actor_filters, code_keywords, series_prefixes) ==
    IF code_keywords # <<>> THEN "code"
    ELSE IF actor_filters # <<>> THEN "actor"
    ELSE IF series_prefixes # <<>> THEN "prefix"
    ELSE "none"

FilterKind(actor_filters, code_keywords, series_prefixes) ==
    IF actor_filters # <<>> THEN "actor"
    ELSE IF code_keywords # <<>> THEN "code"
    ELSE IF series_prefixes # <<>> THEN "prefix"
    ELSE "none"

\* a dict comprehension keeping the targets whose filtered list is not empty
KeepMatched(all_works, F(_)) ==
    [n \in { m \in DOMAIN all_works : F(all_works[m]) # <<>> } |-> F(all_works[n])]

apply_work_filters(all_works, actor_filters, code_keywords, series_prefixes) ==
    LET kind == FilterKind(actor_filters, code_keywords, series_prefixes)
        ByCode(w) == filter_works_by_code_keywords(w, code_keywords)
        ByPrefix(w) == filter_works_by_series_prefixes(w, series_prefixes)
    IN CASE kind = "actor" ->
              [n \in { m \in SeqToSet(actor_filters) :
                         m \in DOMAIN all_works /\ all_works[m] # <<>> }
                 |-> all_works[n]]
         [] kind = "code" -> KeepMatched(all_works, ByCode)
         [] kind = "prefix" -> KeepMatched(all_works, ByPrefix)
         [] OTHER -> all_works

ApplyWorkFilters_Call ==
    /\ flResult = <<>>
    /\ flResult' = <<apply_work_filters(flAll, flActors, flCodes, flPrefixes)>>
    /\ UNCHANGED <<flAll, flActors, flCodes, flPrefixes>>
    /\ UNCHANGED <<driverVars, fetchVars, storeVars, blockVars, cookieVars, txVars,
                   lateVars>>

\* the caller passes other contains / prefix lists with the same candidates
ApplyWorkFilters_OtherLists ==
    /\ flResult # <<>>
    /\ \E c \in KeywordChoices, q \in KeywordChoices :
         /\ <<c, q>> # <<flCodes, flPrefixes>>
         /\ flCodes' = c /\ flPrefixes' = q
         /\ flResult' = <<apply_work_filters(flAll, flActors, c, q)>>
    /\ UNCHANGED <<flAll, flActors>>
    /\ UNCHANGED <<driverVars, fetchVars, storeVars, blockVars, cookieVars, txVars,
                   lateVars>>

InitFilter ==
    /\ DriverIdle /\ FetchIdle /\ StoreIdle /\ BlockIdle /\ CookieIdle /\ TxIdle
    /\ LateIdle
    /\ flAll \in AllWorksChoices
    /\ flActors \in ActorFilterChoices
    /\ flCodes \in KeywordChoices
    /\ flPrefixes \in KeywordChoices
    /\ flResult = <<>>

NextFilter == ApplyWorkFilters_Call \/ ApplyWorkFilters_OtherLists

SpecFilter == InitFilter /\ [][NextFilter]_vars

\* the code holds the keyword, letter case ignored
CodeHas(code, kw) ==
    \E i \in 1..Len(code) :
        /\ i + Len(kw) - 1 <= Len(code)
        /\ \A j \in 1..Len(kw) : Upper(code[i + j - 1]) = Upper(kw[j])
\* the code begins with the prefix, letter case ignored
CodeBegins(code, pre) ==
    /\ Len(pre) <= Len(code)
    /\ \A j \in 1..Len(pre) : Upper(code[j]) = Upper(pre[j])

MatchedByCode(n) ==
    SelectSeq(flAll[n], LAMBDA code : \E k \in SeqToSet(flCodes) : CodeHas(code, k))
MatchedByPrefix(n) ==
    SelectSeq(flAll[n], LAMBDA code : \E k \in SeqToSet(flPrefixes) : CodeBegins(code, k))

\* C11: exactly one filter kind is applied, the first non-empty one in the order
\* exact-name, code-contains, code-prefix; with a non-empty name list only the
\* named targets are selected whatever the other two lists hold; with all three
\* empty the candidate set is returned unchanged.
C11_FilterPrecedence ==
    flResult # <<>> =>
        LET r == flResult[1]
        IN /\ flActors # <<>> =>
                /\ DOMAIN r = { n \in SeqToSet(flActors) \cap DOMAIN flAll : flAll[n] # <<>> }
                /\ \A n \in DOMAIN r : r[n] = flAll[n]
           /\ (flActors = <<>> /\ flCodes # <<>>) =>
                /\ DOMAIN r = { n \in DOMAIN flAll : MatchedByCode(n) # <<>> }
                /\ \A n \in DOMAIN r : r[n] = MatchedByCode(n)
           /\ (flActors = <<>> /\ flCodes = <<>> /\ flPrefixes # <<>>) =>
                /\ DOMAIN r = { n \in DOMAIN flAll : MatchedByPrefix(n) # <<>> }
                /\ \A n \in DOMAIN r : r[n] = MatchedByPrefix(n)
           /\ (flActors = <<>> /\ flCodes = <<>> /\ flPrefixes = <<>>) => r = flAll

\* the name list wins over a contains list that matches only the other target
C11_Witness ==
    /\ flResult # <<>>
    /\ flActors = <<97>> /\ flCodes = << <<97, 66>> >> /\ flPrefixes = << <<65>> >>
    /\ DOMAIN flAll = {66, 97}
    /\ flAll[97] = << <<66, 65>> >> /\ flAll[66] = << <<65, 66>> >>
    /\ DOMAIN flResult[1] = {97}

(***************************************************************************)
(* SpecCookie: the cookie normalizer                                       *)
(*                                                                         *)
(* A raw cookie item is a record of texts, "None" standing for a key that  *)
(* is missing or null.  A name is a sequence of tokens, so that            *)
(* startswith("__Host-") and strip() are real operations:                  *)
(* "__Host-h" = <<"__Host-", "h">>, " sid" = <<" ", "sid">>.  A normalized *)
(* item is a dict: a function whose domain is the set of keys it carries.  *)
(* The value "list" stands for a value that is a list (['a']), and an      *)
(* entry with mapping = FALSE for a list entry that is no mapping.  A flat *)
(* map is the sequence of its <<key, value>> pairs in insertion order,     *)
(* with the items found under the sidecar key beside it.                   *)
(***************************************************************************)
MaxCookies == 2

CookieNames == { <<>>, <<"sid">>, <<"__Host-", "h">>, <<"__Secure-", "s">> }
\* the first item of a list: every name with every combination of the keys the
\* prefix rules touch (url, domain, path, secure), and one plain name with every
\* combination of the other keys
PlacedItems ==
    [name : CookieNames, value : {"None", "v1"}, url : {"None", "u"},
     domain : {"None", "d.com"}, path : {"None", "/p"},
     secure : {"None", "true", "false"}, httpOnly : {"None"},
     sameSite : {"None"}, expires : {"None"}, mapping : {TRUE}]
FlaggedItems ==
    [name : {<<"sid">>}, value : {"v1"}, url : {"None"},
     domain : {"d.com"}, path : {"/p"}, secure : {"true"},
     httpOnly : {"None", "true"},
     sameSite : {"None", "lax", "Lax", "bogus"},
     expires : {"None", "12", "12.5", "soon"}, mapping : {TRUE}]
\* a flat entry as the item {"name": name, "value": value}
FlatItem(name, value) ==
    [name |-> name, value |-> value, url |-> "None", domain |-> "None",
     path |-> "None", secure |-> "None", httpOnly |-> "None", sameSite |-> "None",
     expires |-> "None", mapping |-> TRUE]
\* an item whose value is a list, and a list entry that is no mapping
OddItems ==
    { FlatItem(<<"sid">>, "list"),
      [FlatItem(<<>>, "None") EXCEPT !.mapping = FALSE] }
RawItems == PlacedItems \cup FlaggedItems \cup OddItems
\* items that share a name with another item, or need their name stripped
CompanionItems ==
    { [name |-> n, value |-> v, url |-> "None", domain |-> "e.com", path |-> "None",
       secure |-> "None", httpOnly |-> "None", sameSite |-> "None",
       expires |-> "None", mapping |-> TRUE] : n \in { <<"sid">>, <<" ", "sid">> }, v \in {"v2", "None"} }
DefaultHost == "javdb.com"

CookieLists ==
    { <<>> } \cup
    UNION { { <<first>> \o rest : first \in RawItems, rest \in [1..k -> CompanionItems] }
            : k \in 0..(MaxCookies - 1) }

\* the flat maps handed in: up to two entries with distinct keys (a key may be
\* empty or need stripping, a value may be null or a list), with or without items
\* under the sidecar key
FlatKeys == { <<>>, <<"sid">>, <<" ", "sid">>, <<"t">> }
FlatValues == {"None", "v1", "v2", "list"}
FlatPairLists ==
    { <<>> } \cup { <<<<k, v>>>> : k \in FlatKeys, v \in FlatValues }
    \cup { pl \in { << <<k1, v1>>, <<k2, v2>> >> :
                       k1 \in {<<"sid">>, <<" ", "sid">>}, k2 \in FlatKeys,
                       v1 \in {"v1", "list"}, v2 \in FlatValues } :
              pl[1][1] # pl[2][1] /\ pl[1][2] # pl[2][2] }
SidecarLists ==
    { <<>> } \cup { <<it>> : it \in OddItems \cup CompanionItems }
FlatMaps == [flat : FlatPairLists, items : SidecarLists]

\* str.strip() on a name
strip_name(name) ==
    IF name # <<>> /\ Head(name) = " " THEN Tail(name) ELSE name

\* dict operations
Put(d, k, v) == [x \in (DOMAIN d) \cup {k} |-> IF x = k THEN v ELSE d[x]]
Has(d, k) == k \in DOMAIN d

\* _is_cookie_scalar_value
is_cookie_scalar_value(value) == value # "list"

\* str(value): a text is itself, a list is written out
str_value(value) == IF value = "list" THEN "['a']" ELSE value

\* a negation in place of bool()
to_boolMutant(t) == t # "true"

\* bool(): the texts "true" / "false" stand for truthy / falsy values
to_bool(t) == t = "true"

\* int(float(expires)); Unparsable when the conversion raises
Unparsable == -1
int_float(t) ==
    CASE t = "12" -> 12
      [] t = "12.5" -> 12
      [] OTHER -> Unparsable

\* str(same_site).strip().lower() mapped to the three canonical spellings
canonical_same_site(t) ==
    CASE t \in {"lax", "Lax"} -> "Lax"
      [] t \in {"strict", "Strict"} -> "Strict"
      [] t \in {"none"} -> "None"
      [] OTHER -> "unknown"

\* "elif is_host_cookie or name.startswith('__Secure-')": names whose secure flag
\* defaults to true when the item carries none
SecureByPrefix(name) ==
    StartsWith(name, <<"__Host-">>) \/ StartsWith(name, <<"__Secure-">>)

\* the final "if is_host_cookie" block
ForceHostMutant(d) == d

\* output.pop("domain", None); output["path"] = "/"; output["secure"] = True
ForceHost(d) ==
    [k \in ((DOMAIN d) \ {"domain"}) \cup {"path", "secure"} |->
        CASE k = "path" -> "/"
          [] k = "secure" -> TRUE
          [] OTHER -> d[k]]

\* the keys the copying part of _normalize_cookie_item puts into output: name and
\* value, url / domain / path / secure / httpOnly when the item carries them (path
\* and secure also by the name's prefix), sameSite in a known spelling, expires
\* when it converts
CopiedKeys(item, name) ==
    {"name", "value"}
    \cup (IF item.url # "None" THEN {"url"} ELSE {})
    \cup (IF item.domain # "None" /\ ~StartsWith(name, <<"__Host-">>)
            THEN {"domain"} ELSE {})
    \cup (IF item.path # "None" \/ StartsWith(name, <<"__Host-">>)
            THEN {"path"} ELSE {})
    \cup (IF item.secure # "None" \/ SecureByPrefix(name) THEN {"secure"} ELSE {})
    \cup (IF item.httpOnly # "None" THEN {"httpOnly"} ELSE {})
    \cup (IF item.sameSite # "None" /\ canonical_same_site(item.sameSite) # "unknown"
            THEN {"sameSite"} ELSE {})
    \cup (IF item.expires # "None" /\ int_float(item.expires) # Unparsable
            THEN {"expires"} ELSE {})

\* ... and the value written under each of them
CopiedValue(item, name, k) ==
    CASE k = "name" -> name
      [] k = "value" -> str_value(item.value)
      [] k = "url" -> item.url
      [] k = "domain" -> item.domain
      [] k = "path" -> (IF item.path # "None" THEN item.path ELSE "/")
      [] k = "secure" -> (IF item.secure # "None" THEN to_bool(item.secure) ELSE TRUE)
      [] k = "httpOnly" -> to_bool(item.httpOnly)
      [] k = "sameSite" -> canonical_same_site(item.sameSite)
      [] k = "expires" -> int_float(item.expires)

\* the defaults without the one for path
WithDefaultsMutant(d, is_host_cookie, default_host) ==
    [k \in (DOMAIN d)
           \cup (IF ~Has(d, "url") /\ ~Has(d, "domain") /\ ~is_host_cookie
                    /\ default_host # ""
                   THEN {"domain"} ELSE {}) |->
        IF Has(d, k) THEN d[k] ELSE default_host]

\* the two defaults at the end: domain = default_host when the item has neither
\* url nor domain and is no __Host- cookie, path = "/" when it has neither url nor
\* path
WithDefaults(d, is_host_cookie, default_host) ==
    [k \in (DOMAIN d)
           \cup (IF ~Has(d, "url") /\ ~Has(d, "domain") /\ ~is_host_cookie
                    /\ default_host # ""
                   THEN {"domain"} ELSE {})
           \cup (IF ~Has(d, "url") /\ ~Has(d, "path") THEN {"path"} ELSE {}) |->
        IF Has(d, k) THEN d[k]
        ELSE IF k = "domain" THEN default_host ELSE "/"]

\* _normalize_cookie_item: <<>> for the None it returns for a dropped item, else
\* <<dict>>
normalize_cookie_item(item, default_host) ==
    LET name == strip_name(item.name)
        is_host_cookie == StartsWith(name, <<"__Host-">>)
        copied == [k \in CopiedKeys(item, name) |-> CopiedValue(item, name, k)]
        output == IF is_host_cookie THEN ForceHost(copied) ELSE copied
    IN IF name = <<>> \/ item.value = "None" THEN <<>>
       ELSE <<WithDefaults(output, is_host_cookie, default_host)>>

RECURSIVE NormalizeList(_, _)
\* the loop "for item in cookies: if isinstance(item, Mapping): _append_item(item)"
NormalizeList(items, default_host) ==
    IF items = <<>> THEN <<>>
    ELSE (IF Head(items).mapping
            THEN normalize_cookie_item(Head(items), default_host) ELSE <<>>)
            \o NormalizeList(Tail(items), default_host)

\* an ordered dict name -> value as a sequence of <<name, value>> pairs
DictSet(pairs, name, value) ==
    IF \E i \in 1..Len(pairs) : pairs[i][1] = name
      THEN [i \in 1..Len(pairs) |-> IF pairs[i][1] = name THEN <<name, value>> ELSE pairs[i]]
      ELSE Append(pairs, <<name, value>>)

RECURSIVE CoerceFlat(_, _)
\* the loop of _coerce_cookie_store filling cookie_dict
CoerceFlat(items, pairs) ==
    IF items = <<>> THEN pairs
    ELSE LET name == strip_name(Head(items).name)
             value == Head(items).value
         IN CoerceFlat(Tail(items),
                       IF Head(items).mapping /\ name # <<>> /\ value # "None"
                         THEN DictSet(pairs, name, str_value(value)) ELSE pairs)

\* _coerce_cookie_store on a structured list: the flat map plus the sidecar, which
\* holds every entry that is a mapping
coerce_cookie_store(cookies) ==
    [flat |-> CoerceFlat(cookies, <<>>),
     items |-> SelectSeq(cookies, LAMBDA it : it.mapping)]

RECURSIVE ExtractFlat(_, _)
\* the loop of _extract_httpx_cookie_dict
ExtractFlat(pairs, output) ==
    IF pairs = <<>> THEN output
    ELSE LET value == Head(pairs)[2]
             name == strip_name(Head(pairs)[1])
         IN ExtractFlat(Tail(pairs),
                        IF value = "None" \/ ~is_cookie_scalar_value(value) \/ name = <<>>
                          THEN output ELSE DictSet(output, name, str_value(value)))

\* _extract_httpx_cookie_dict: the sidecar key is skipped
extract_httpx_cookie_dict(cookie_store) == ExtractFlat(cookie_store.flat, <<>>)

\* index_by_name.get(name): position of the item appended last under that name,
\* 0 for None
IndexByNameMutant(output, name) ==
    IF \E i \in 1..Len(output) : output[i].name = name
      THEN CHOOSE i \in 1..Len(output) :
             /\ output[i].name = name
             /\ \A j \in 1..Len(output) : output[j].name = name => j >= i
      ELSE 0

IndexByName(output, name) ==
    IF \E i \in 1..Len(output) : output[i].name = name
      THEN CHOOSE i \in 1..Len(output) :
             /\ output[i].name = name
             /\ \A j \in 1..Len(output) : output[j].name = name => j <= i
      ELSE 0

RECURSIVE MergeFlat(_, _, _)
\* the loop "for key, value in cookies.items()" of _normalize_playwright_cookies
MergeFlat(output, pairs, default_host) ==
    IF pairs = <<>> THEN output
    ELSE LET value == Head(pairs)[2]
             name == strip_name(Head(pairs)[1])
             normalized == normalize_cookie_item(FlatItem(name, value), default_host)
             existing == IndexByName(output, name)
         IN IF value = "None" \/ ~is_cookie_scalar_value(value) \/ name = <<>>
                 \/ normalized = <<>>
              THEN MergeFlat(output, Tail(pairs), default_host)
            ELSE IF existing = 0
              THEN MergeFlat(output \o normalized, Tail(pairs), default_host)
            ELSE MergeFlat([output EXCEPT ![existing] =
                                Put(@, "value", normalized[1].value)],
                           Tail(pairs), default_host)

\* _normalize_playwright_cookies on a flat map with sidecar
normalize_playwright_cookies_map(store, default_host) ==
    MergeFlat(NormalizeList(store.items, default_host), store.flat, default_host)

Cookie_Normalize ==
    /\ ckpc = "start"
    /\ ckOut' = IF ckShape = "list"
                  THEN NormalizeList(ckInput, DefaultHost)
                  ELSE normalize_playwright_cookies_map(ckMap, DefaultHost)
    /\ ckpc' = "normalized"
    /\ UNCHANGED <<ckShape, ckInput, ckMap, ckStore, ckRound, ckHttpx, ckAgain>>
    /\ UNCHANGED <<driverVars, fetchVars, storeVars, blockVars, filterVars, txVars,
                   lateVars>>

Cookie_Coerce ==
    /\ ckpc = "normalized"
    /\ ckStore' = IF ckShape = "list" THEN coerce_cookie_store(ckInput) ELSE ckMap
    /\ ckHttpx' = extract_httpx_cookie_dict(ckStore')
    /\ ckpc' = "coerced"
    /\ UNCHANGED <<ckShape, ckInput, ckMap, ckOut, ckRound, ckAgain>>
    /\ UNCHANGED <<driverVars, fetchVars, storeVars, blockVars, filterVars, txVars,
                   lateVars>>

Cookie_Back ==
    /\ ckpc = "coerced"
    /\ ckRound' = normalize_playwright_cookies_map(ckStore, DefaultHost)
    /\ ckpc' = "back"
    /\ UNCHANGED <<ckShape, ckInput, ckMap, ckOut, ckStore, ckHttpx, ckAgain>>
    /\ UNCHANGED <<driverVars, fetchVars, storeVars, blockVars, filterVars, txVars,
                   lateVars>>

\* an item of the output list read as an input item: the same keys and values,
\* a boolean as "true" / "false", the sameSite text "None" in the spelling
\* "none" (an absent key is "None" in an input item), the number 12 as "12"
AsInputItem(out) ==
    [name |-> out["name"], value |-> out["value"],
     url |-> IF Has(out, "url") THEN out["url"] ELSE "None",
     domain |-> IF Has(out, "domain") THEN out["domain"] ELSE "None",
     path |-> IF Has(out, "path") THEN out["path"] ELSE "None",
     secure |-> IF ~Has(out, "secure") THEN "None"
                ELSE IF out["secure"] THEN "true" ELSE "false",
     httpOnly |-> IF ~Has(out, "httpOnly") THEN "None"
                  ELSE IF out["httpOnly"] THEN "true" ELSE "false",
     sameSite |-> IF ~Has(out, "sameSite") THEN "None"
                  ELSE IF out["sameSite"] = "None" THEN "none" ELSE out["sameSite"],
     expires |-> IF ~Has(out, "expires") THEN "None"
                 ELSE IF out["expires"] = 12 THEN "12" ELSE "soon",
     mapping |-> TRUE]

\* _normalize_playwright_cookies applied to its own output
Cookie_Renormalize ==
    /\ ckpc = "normalized"
    /\ ckAgain' = NormalizeList([i \in 1..Len(ckOut) |-> AsInputItem(ckOut[i])],
                                DefaultHost)
    /\ ckpc' = "renormalized"
    /\ UNCHANGED <<ckShape, ckInput, ckMap, ckOut, ckStore, ckRound, ckHttpx>>
    /\ UNCHANGED <<driverVars, fetchVars, storeVars, blockVars, filterVars, txVars,
                   lateVars>>

InitCookie ==
    /\ DriverIdle /\ FetchIdle /\ StoreIdle /\ BlockIdle /\ FilterIdle /\ TxIdle
    /\ LateIdle
    /\ \/ ckShape = "list" /\ ckInput \in CookieLists /\ ckMap = NoStore
       \/ ckShape = "map" /\ ckInput = <<>> /\ ckMap \in FlatMaps
    /\ ckpc = "start"
    /\ ckOut = <<>> /\ ckStore = NoStore /\ ckRound = <<>> /\ ckHttpx = <<>>
    /\ ckAgain = <<>>

NextCookie == Cookie_Normalize \/ Cookie_Coerce \/ Cookie_Back \/ Cookie_Renormalize

SpecCookie == InitCookie /\ [][NextCookie]_vars

\* the input items that have a name and a value, in input order
NamedItems ==
    SelectSeq(ckInput,
              LAMBDA it : it.mapping /\ strip_name(it.name) # <<>> /\ it.value # "None")
IsHostName(name) == name # <<>> /\ Head(name) = "__Host-"
IsSecureName(name) == name # <<>> /\ Head(name) = "__Secure-"

\* C13: for every input item named "__Host-...", whatever domain, path and secure
\* it carries, the normalized item has no domain key, path "/" and secure true.
C13_HostPrefixInvariants ==
    (ckShape = "list" /\ ckpc # "start") =>
        /\ Len(ckOut) = Len(NamedItems)
        /\ \A i \in 1..Len(ckOut) :
             IsHostName(strip_name(NamedItems[i].name)) =>
                /\ "domain" \notin DOMAIN ckOut[i]
                /\ "path" \in DOMAIN ckOut[i] /\ ckOut[i]["path"] = "/"
                /\ "secure" \in DOMAIN ckOut[i] /\ ckOut[i]["secure"] = TRUE

C13_Witness ==
    /\ ckpc = "normalized" /\ Len(ckInput) = 1
    /\ ckInput[1].name = <<"__Host-", "h">> /\ ckInput[1].value = "v1"
    /\ ckInput[1].domain = "d.com" /\ ckInput[1].path = "/p"
    /\ ckInput[1].secure = "false"
    /\ Len(ckOut) = 1 /\ ckOut[1]["path"] = "/"

\* C14: for every input item named "__Secure-...", the normalized item has secure
\* true, also when the input carries an explicit secure = false.
C14_SecurePrefixForced ==
    (ckShape = "list" /\ ckpc # "start") =>
        \A i \in 1..Len(ckOut) :
            IsSecureName(strip_name(NamedItems[i].name)) =>
                ("secure" \in DOMAIN ckOut[i] /\ ckOut[i]["secure"] = TRUE)

\* the attribute carried by the input item is found, in canonical form, in the
\* output item
SameDomain(it, o) == it.domain # "None" => ("domain" \in DOMAIN o /\ o["domain"] = it.domain)
SamePath(it, o) == it.path # "None" => ("path" \in DOMAIN o /\ o["path"] = it.path)
SameSecure(it, o) ==
    it.secure # "None" => ("secure" \in DOMAIN o /\ (o["secure"] <=> it.secure = "true"))
SameHttpOnly(it, o) ==
    it.httpOnly # "None" => ("httpOnly" \in DOMAIN o /\ (o["httpOnly"] <=> it.httpOnly = "true"))
SameSameSite(it, o) ==
    it.sameSite \in {"lax", "Lax"} => ("sameSite" \in DOMAIN o /\ o["sameSite"] = "Lax")
SameExpires(it, o) ==
    it.expires \in {"12", "12.5"} => ("expires" \in DOMAIN o /\ o["expires"] = 12)
SameNameValue(it, o) ==
    /\ o["name"] = (IF Head(it.name) = " " THEN Tail(it.name) ELSE it.name)
    /\ o["value"] = str_value(it.value)

\* C12 as stated: the round trip list -> flat map with sidecar -> list yields, for
\* every input item with a name and a value, an item with the same name, value,
\* domain, path, secure, httpOnly, sameSite and expires, and no other item.
C12_RoundTripAsStated ==
    (ckShape = "list" /\ ckpc = "back") =>
        /\ Len(ckRound) = Len(NamedItems)
        /\ \A i \in 1..Len(ckRound) :
             LET it == NamedItems[i]
                 o == ckRound[i]
             IN /\ SameNameValue(it, o)
                /\ SameDomain(it, o) /\ SamePath(it, o) /\ SameSecure(it, o)
                /\ SameHttpOnly(it, o) /\ SameSameSite(it, o) /\ SameExpires(it, o)

\* C12 amended: the round trip yields exactly what normalizing the list directly
\* yields: one item per input item with a name and a value, with the same name,
\* value, httpOnly, sameSite and expires, and the same domain, path and secure
\* unless the name starts with "__Host-" (then no domain, path "/", secure true).
C12_RoundTrip ==
    (ckShape = "list" /\ ckpc = "back") =>
        /\ ckRound = ckOut
        /\ Len(ckRound) = Len(NamedItems)
        /\ \A i \in 1..Len(ckRound) :
             LET it == NamedItems[i]
                 o == ckRound[i]
             IN /\ SameNameValue(it, o)
                /\ SameHttpOnly(it, o) /\ SameSameSite(it, o) /\ SameExpires(it, o)
                /\ IF IsHostName(o["name"])
                     THEN /\ "domain" \notin DOMAIN o
                          /\ o["path"] = "/" /\ o["secure"] = TRUE
                     ELSE SameDomain(it, o) /\ SamePath(it, o) /\ SameSecure(it, o)

\* two items of one name with different values and all attributes populated
C12_Witness ==
    /\ ckpc = "back" /\ Len(ckInput) = 2 /\ Len(ckRound) = 2
    /\ ckInput[1].name = <<"sid">> /\ ckInput[1].value = "v1"
    /\ ckInput[1].domain = "d.com" /\ ckInput[1].path = "/p"
    /\ ckInput[1].secure = "true" /\ ckInput[1].httpOnly = "true"
    /\ ckInput[1].sameSite = "lax" /\ ckInput[1].expires = "12.5"
    /\ ckInput[2].name = <<" ", "sid">> /\ ckInput[2].value = "v2"
    /\ ckRound[1]["value"] = "v1" /\ ckRound[2]["value"] = "v2"
    /\ ckRound[1]["expires"] = 12

\* an entry a conversion has to keep: a mapping with a name and a scalar value that
\* is not null
WellFormedItem(it) ==
    it.mapping /\ strip_name(it.name) # <<>> /\ it.value # "None"
        /\ is_cookie_scalar_value(it.value)
WellFormedPair(pr) ==
    strip_name(pr[1]) # <<>> /\ pr[2] # "None" /\ is_cookie_scalar_value(pr[2])
ItemSources(items) ==
    { <<strip_name(items[i].name), items[i].value>> :
        i \in { j \in 1..Len(items) : WellFormedItem(items[j]) } }
PairSources(pairs) ==
    { <<strip_name(pairs[i][1]), pairs[i][2]>> :
        i \in { j \in 1..Len(pairs) : WellFormedPair(pairs[j]) } }
\* the well-formed entries behind the structured list, and behind the flat map
ListSources ==
    IF ckShape = "list" THEN ItemSources(ckInput)
    ELSE ItemSources(ckMap.items) \cup PairSources(ckMap.flat)
MapSources ==
    IF ckShape = "list" THEN ItemSources(ckInput) ELSE PairSources(ckMap.flat)
ExactlyFrom(outPairs, sources) ==
    /\ outPairs \subseteq sources
    /\ \A src \in sources : \E o \in outPairs : o[1] = src[1]

\* C22: the conversions return for every input, every item of their output is a
\* well-formed entry of the input (name and value), and every well-formed name
\* of the input is in the output; entries without name, with a null or non-scalar
\* value, and entries that are no mapping are absent.
C22_TotalConversions ==
    /\ ckpc \in {"normalized", "coerced", "back"} =>
          ExactlyFrom({ <<ckOut[i]["name"], ckOut[i]["value"]>> : i \in 1..Len(ckOut) },
                      ListSources)
    /\ ckpc \in {"coerced", "back"} =>
          ExactlyFrom({ ckHttpx[i] : i \in 1..Len(ckHttpx) }, MapSources)

\* C36: _normalize_playwright_cookies applied to its own output, with the same
\* default host, returns that output: the same items in the same order.
C36_NormalizeIdempotent == ckpc = "renormalized" => ckAgain = ckOut

\* a list of two items, the first with every attribute in a spelling the
\* normalizer changes
C36_Witness ==
    /\ ckpc = "renormalized" /\ ckShape = "list" /\ Len(ckOut) = 2
    /\ ckInput[1].sameSite = "lax" /\ ckInput[1].expires = "12.5"
    /\ ckInput[1].httpOnly = "true" /\ ckInput[2].name = <<" ", "sid">>
    /\ ckOut[1]["expires"] = 12 /\ ckOut[2]["domain"] = "e.com"

\* a flat map with a sidecar item, and an item that got the default domain
C36_WitnessMap ==
    /\ ckpc = "renormalized" /\ ckShape = "map" /\ ckMap.items # <<>>
    /\ Len(ckOut) = 2

C36_WitnessDefaults ==
    /\ ckpc = "renormalized" /\ ckShape = "list" /\ Len(ckOut) = 1
    /\ ckInput[1].domain = "None" /\ ckInput[1].url = "None"
    /\ ckInput[1].secure = "false" /\ ckOut[1]["domain"] = DefaultHost

\* the items the conversion to the structured list has produced so far
ProducedItems ==
    { ckOut[i] : i \in 1..Len(ckOut) } \cup { ckRound[i] : i \in 1..Len(ckRound) }

\* C28 as stated: every item the conversion to the structured list produces has a
\* path, and the path is "/" when the input item carries none.
C28_PathAsStated ==
    /\ \A out \in ProducedItems : "path" \in DOMAIN out
    /\ (ckShape = "list" /\ ckpc # "start") =>
          \A i \in 1..Len(ckOut) :
              NamedItems[i].path = "None" =>
                  ("path" \in DOMAIN ckOut[i] /\ ckOut[i]["path"] = "/")

\* C28 amended: every produced item has a path or a url; an input item without
\* path gets path "/" when it carries no url or is named "__Host-...", and gets
\* no path when it carries a url; a path the input carries is kept unless the
\* name is "__Host-...".
C28_PathDefault ==
    /\ \A out \in ProducedItems : "path" \in DOMAIN out \/ "url" \in DOMAIN out
    /\ (ckShape = "list" /\ ckpc # "start") =>
          \A i \in 1..Len(ckOut) :
              LET it == NamedItems[i]
                  host == IsHostName(strip_name(it.name))
              IN IF host \/ (it.path = "None" /\ it.url = "None")
                   THEN "path" \in DOMAIN ckOut[i] /\ ckOut[i]["path"] = "/"
                 ELSE IF it.path = "None"
                   THEN "path" \notin DOMAIN ckOut[i] /\ ckOut[i]["url"] = it.url
                 ELSE "path" \in DOMAIN ckOut[i] /\ ckOut[i]["path"] = it.path

\* an item without path and url, followed by one more, both given path "/"
C28_Witness ==
    /\ ckShape = "list" /\ ckpc = "normalized" /\ Len(ckInput) = 2 /\ Len(ckOut) = 2
    /\ ckInput[1].name = <<"sid">> /\ ckInput[1].path = "None"
    /\ ckInput[1].url = "None" /\ ckInput[1].domain = "None"
    /\ ckOut[1]["path"] = "/" /\ ckOut[2]["path"] = "/"

\* a flat entry given path "/", and an item with a url given none
C28_WitnessFlat ==
    /\ ckShape = "map" /\ ckpc = "normalized" /\ ckMap.items = <<>>
    /\ Len(ckOut) = 2 /\ ckOut[1]["path"] = "/" /\ ckOut[2]["path"] = "/"

C28_WitnessUrl ==
    /\ ckShape = "list" /\ ckpc = "normalized" /\ Len(ckOut) = 1
    /\ ckInput[1].url = "u" /\ ckInput[1].path = "None"
    /\ ckInput[1].name = <<"sid">> /\ "path" \notin DOMAIN ckOut[1]

(***************************************************************************)
(* Storage: the "with Storage(...)" scope, the sqlite3 transactions of the *)
(* save methods, and the upserts.  The actor tables (actors, works,        *)
(* magnets) and the collection tables (collections, collection_works,      *)
(* collection_magnets) have the same code shape and never touch each       *)
(* other; a run writes one family, txTables.  A subject is an actor or a   *)
(* collection; its key is <<"", name>> or <<scope, name>>.  Row ids are    *)
(* positions in the table.                                                 *)
(***************************************************************************)
MaxCalls == 2       \* save calls per behaviour

TableFamilies == {"actors", "collections"}
ScopeTexts == {"series", " Series", "maker"}

\* normalize_collect_scope: strip, lower, "actor" for an unknown scope
normalize_collect_scope(scope) ==
    CASE scope \in {"series", " Series"} -> "series"
      [] scope = "maker" -> "maker"
      [] OTHER -> "actor"

\* the scope arguments a call of the family can carry ("" for the actor tables)
ScopesOf(tables) == IF tables = "actors" THEN {""} ELSE ScopeTexts
KeyScope(tables, scope) == IF tables = "actors" THEN "" ELSE normalize_collect_scope(scope)
NamesOf(tables) == IF tables = "actors" THEN {"A", "B"} ELSE {"A"}
KeysOf(tables) == { <<KeyScope(tables, sc), n>> : sc \in ScopesOf(tables), n \in NamesOf(tables) }
WorkCodes == {"X"}

\* str(...).strip() on the texts of the record pools
str_strip(t) == IF t = " A" THEN "A" ELSE t

\* the record lists handed to save_actors / save_collections: one record, a name
\* to strip, a record without href, a record without name (dropped), one name twice
SubjectRecordLists(tables) ==
    { <<>>,
      <<[name |-> "A", href |-> "h1"]>>,
      <<[name |-> " A", href |-> "h2"]>>,
      <<[name |-> "A", href |-> ""]>>,
      <<[name |-> "", href |-> "h1"]>>,
      <<[name |-> "A", href |-> "h1"], [name |-> "A", href |-> "h2"]>> }
    \cup (IF tables = "actors"
            THEN { <<[name |-> "B", href |-> "h1"]>>,
                   <<[name |-> "B", href |-> "h2"], [name |-> "", href |-> "h1"]>> }
            ELSE {})
HrefPool == {"", "h1", "h2"}

\* the work records of a save: valid ones, one without href and one without code
\* (both dropped), one code twice
WorkRecords ==
    { [code |-> "X", title |-> "t1", href |-> "w1"],
      [code |-> "X", title |-> "", href |-> "w2"],
      [code |-> "X", title |-> "t1", href |-> ""],
      [code |-> "", title |-> "t1", href |-> "w1"] }
WorkRecordLists ==
    { <<>> } \cup { <<r>> : r \in WorkRecords }
    \cup { <<[code |-> "X", title |-> "t1", href |-> "w1"],
             [code |-> "X", title |-> "", href |-> "w2"]>>,
           <<[code |-> "X", title |-> "", href |-> "w2"],
             [code |-> "", title |-> "t1", href |-> "w1"]>> }
TxMagnetLists == { <<>>, <<[href |-> " m1"]>>, <<[href |-> ""], [href |-> "m2"]>> }

\* _normalize_actor_record / _normalize_collection_record: <<>> for None
normalize_subject_record(record) ==
    LET name == str_strip(record.name)
        href == str_strip(record.href)
    IN IF name # "" THEN <<[name |-> name, href |-> href]>> ELSE <<>>

\* _normalize_work_record: <<>> for None
normalize_work_record(record) ==
    LET code == str_strip(record.code)
        href == str_strip(record.href)
        title_str == str_strip(record.title)
    IN IF code = "" \/ href = "" THEN <<>>
       ELSE <<[code |-> code, href |-> href, title |-> title_str]>>

RECURSIVE NormalizedSubjects(_)
\* the loop "for actor in actors: normalized = ...; if normalized: append"
NormalizedSubjects(records) ==
    IF records = <<>> THEN <<>>
    ELSE normalize_subject_record(Head(records)) \o NormalizedSubjects(Tail(records))

RECURSIVE NormalizedWorks(_)
\* the loop "for work in works: entry = ...; if entry: append"
NormalizedWorks(records) ==
    IF records = <<>> THEN <<>>
    ELSE normalize_work_record(Head(records)) \o NormalizedWorks(Tail(records))

\* SELECT id FROM actors WHERE name = ? (collections: scope = ? AND name = ?); 0 = no row
FindSubjectMutant(d, key) == 0

FindSubject(d, key) ==
    IF \E i \in 1..Len(d.subjects) : d.subjects[i].key = key
      THEN CHOOSE i \in 1..Len(d.subjects) : d.subjects[i].key = key
      ELSE 0

\* SELECT id FROM works WHERE actor_id = ? AND code = ?; 0 = no row
FindWork(d, sid, code) ==
    IF \E i \in 1..Len(d.works) : d.works[i].subject_id = sid /\ d.works[i].code = code
      THEN CHOOSE i \in 1..Len(d.works) :
             d.works[i].subject_id = sid /\ d.works[i].code = code
      ELSE 0

\* INSERT INTO <table> ...: the new row gets the next id
InsertRowMutant(table, row) == table

InsertRow(table, row) == Append(table, row)

\* INSERT ... ON CONFLICT(name) DO UPDATE SET href = excluded.href
upsert_subject(d, key, href) ==
    LET i == FindSubject(d, key)
    IN IF i = 0
         THEN [d EXCEPT !.subjects = InsertRow(@, [key |-> key, href |-> href])]
         ELSE [d EXCEPT !.subjects[i].href = href]

RECURSIVE upsert_subjects(_, _, _)
\* the loop of save_actors / save_collections over the valid rows
upsert_subjects(d, scope, rows) ==
    IF rows = <<>> THEN d
    ELSE upsert_subjects(upsert_subject(d, <<scope, Head(rows).name>>, Head(rows).href),
                         scope, Tail(rows))

\* INSERT ... ON CONFLICT(actor_id, code) DO UPDATE SET title, href
upsert_work(d, sid, row) ==
    LET i == FindWork(d, sid, row.code)
    IN IF i = 0
         THEN [d EXCEPT !.works = InsertRow(@, [subject_id |-> sid, code |-> row.code,
                                                title |-> row.title, href |-> row.href])]
         ELSE [d EXCEPT !.works[i].title = row.title, !.works[i].href = row.href]

RECURSIVE upsert_works(_, _, _)
upsert_works(d, sid, rows) ==
    IF rows = <<>> THEN d
    ELSE upsert_works(upsert_work(d, sid, Head(rows)), sid, Tail(rows))

\* _ensure_actor / _ensure_collection: the id of the subject; an existing row gets
\* a non-empty href by an UPDATE that stays in the open transaction, a missing row
\* is inserted and committed ("with self.conn")
ensure_subject(d, key, href) ==
    LET i == FindSubject(d, key)
    IN IF i # 0
         THEN [d |-> IF href # "" THEN [d EXCEPT !.subjects[i].href = href] ELSE d,
               id |-> i, commit |-> FALSE]
         ELSE [d |-> [d EXCEPT !.subjects = InsertRow(@, [key |-> key, href |-> href])],
               id |-> Len(d.subjects) + 1, commit |-> TRUE]

\* _ensure_work / _ensure_collection_work after the subject is ensured: an existing
\* row is left as it is, a missing one is inserted and committed
ensure_work(d, sid, code, title, href) ==
    LET i == FindWork(d, sid, code)
    IN IF i # 0
         THEN [d |-> d, id |-> i, commit |-> FALSE]
         ELSE [d |-> [d EXCEPT !.works = InsertRow(@, [subject_id |-> sid, code |-> code,
                                                      title |-> title, href |-> href])],
               id |-> Len(d.works) + 1, commit |-> TRUE]

\* a DELETE without its WHERE clause
replace_magnetsMutant(d, wid, uris) ==
    [d EXCEPT !.magnets = { [work_id |-> wid, uri |-> uris[k]] : k \in 1..Len(uris) }]

\* DELETE FROM magnets WHERE work_id = ?, then executemany(INSERT ...)
replace_magnets(d, wid, uris) ==
    [d EXCEPT !.magnets = { m \in @ : m.work_id # wid }
                          \cup { [work_id |-> wid, uri |-> uris[k]] : k \in 1..Len(uris) }]

\* save_actors / save_collections as a function of the database
save_subjects(d, tables, scope, records) ==
    LET rows == NormalizedSubjects(records)
    IN IF rows = <<>> THEN d ELSE upsert_subjects(d, KeyScope(tables, scope), rows)

\* save_actor_works / save_collection_works as a function of the database
save_works(d, key, href, records) ==
    LET rows == NormalizedWorks(records)
        e == ensure_subject(d, key, href)
    IN IF rows = <<>> THEN d ELSE upsert_works(e.d, e.id, rows)

(* ---- what each identity was last asked to hold ------------------------ *)
NoWrites == [n |-> 0, asked |-> "", kept |-> "", title |-> ""]

\* a write of the subject by a save_actors / save_collections row
RECURSIVE NoteSubjects(_, _, _)
NoteSubjects(g, scope, rows) ==
    IF rows = <<>> THEN g
    ELSE LET key == <<scope, Head(rows).name>>
         IN NoteSubjects([g EXCEPT ![key] = [n |-> IF @.n < 2 THEN @.n + 1 ELSE 2,
                                             asked |-> Head(rows).href,
                                             kept |-> Head(rows).href,
                                             title |-> ""]],
                         scope, Tail(rows))

\* a write of the subject by save_actor_works / save_collection_works
NoteSubjectOfWorks(g, key, href) ==
    [g EXCEPT ![key] = [n |-> IF @.n < 2 THEN @.n + 1 ELSE 2,
                        asked |-> href,
                        kept |-> IF @.n = 0 \/ href # "" THEN href ELSE @.kept,
                        title |-> ""]]

RECURSIVE NoteWorks(_, _, _)
NoteWorks(g, key, rows) ==
    IF rows = <<>> THEN g
    ELSE NoteWorks([g EXCEPT ![<<key, Head(rows).code>>] =
                        [n |-> IF @.n < 2 THEN @.n + 1 ELSE 2,
                         asked |-> Head(rows).href, kept |-> Head(rows).href,
                         title |-> Head(rows).title]],
                   key, Tail(rows))

(* ---- actions ------------------------------------------------------------ *)
TxOthers == <<driverVars, fetchVars, storeVars, blockVars, filterVars, cookieVars,
              lateVars>>

\* Storage.__enter__ -> open()
Tx_Enter ==
    /\ txScope = "closed"
    /\ txScope' = "open" /\ txConn' = txDurable /\ txBefore' = txDurable
    /\ txExit' = "none"
    /\ UNCHANGED <<txTables, txDurable, txpc, txCall, txCalls, txSubj, txWork>>
    /\ UNCHANGED TxOthers

\* Storage.__exit__ with exc_type None: commit, close
Tx_ExitClean ==
    /\ txScope = "open" /\ txpc = "idle"
    /\ txDurable' = txConn /\ txScope' = "closed" /\ txExit' = "clean"
    /\ UNCHANGED <<txTables, txConn, txBefore, txpc, txCall, txCalls, txSubj, txWork>>
    /\ UNCHANGED TxOthers

\* Storage.__exit__ with an exception raised between two saves (a block failure,
\* CancelledError, ...): rollback of the open transaction, close
Tx_Raise ==
    /\ txScope = "open" /\ txpc = "idle"
    /\ txConn' = txDurable /\ txScope' = "closed" /\ txExit' = "error"
    /\ UNCHANGED <<txTables, txDurable, txBefore, txpc, txCall, txCalls, txSubj, txWork>>
    /\ UNCHANGED TxOthers

\* the same with the exception raised inside a save, after one of its commits
Tx_RaiseInSave ==
    /\ txScope = "open" /\ txpc # "idle"
    /\ txConn' = txDurable /\ txScope' = "closed" /\ txExit' = "error"
    /\ txpc' = "idle" /\ txCall' = NoCall
    /\ UNCHANGED <<txTables, txDurable, txBefore, txCalls, txSubj, txWork>>
    /\ UNCHANGED TxOthers

\* save_actors / save_collections: one "with self.conn" block around the upserts
Tx_save_subjects ==
    /\ txScope = "open" /\ txpc = "idle" /\ txCalls < MaxCalls
    /\ \E scope \in ScopesOf(txTables), records \in SubjectRecordLists(txTables) :
         LET d2 == save_subjects(txConn, txTables, scope, records)
         IN /\ txConn' = d2
            /\ txDurable' = IF NormalizedSubjects(records) = <<>>
                              THEN txDurable ELSE d2
            /\ txSubj' = NoteSubjects(txSubj, KeyScope(txTables, scope),
                                      NormalizedSubjects(records))
    /\ txCalls' = txCalls + 1
    /\ UNCHANGED <<txTables, txScope, txExit, txBefore, txpc, txCall, txWork>>
    /\ UNCHANGED TxOthers

\* save_actor_works / save_collection_works up to _ensure_actor / _ensure_collection
Tx_save_works_ensure ==
    /\ txScope = "open" /\ txpc = "idle" /\ txCalls < MaxCalls
    /\ \E key \in KeysOf(txTables), href \in HrefPool, records \in WorkRecordLists :
         LET rows == NormalizedWorks(records)
             e == ensure_subject(txConn, key, href)
         IN IF rows = <<>>
              THEN UNCHANGED <<txConn, txDurable, txpc, txCall, txSubj>>
              ELSE /\ txConn' = e.d
                   /\ txDurable' = IF e.commit THEN e.d ELSE txDurable
                   /\ txpc' = "subject"
                   /\ txCall' = [NoCall EXCEPT !.op = "works", !.key = key,
                                               !.rows = rows, !.sid = e.id]
                   /\ txSubj' = NoteSubjectOfWorks(txSubj, key, href)
    /\ txCalls' = txCalls + 1
    /\ UNCHANGED <<txTables, txScope, txExit, txBefore, txWork>>
    /\ UNCHANGED TxOthers

\* ... and its "with self.conn" block around the upserts of the works
Tx_save_works_upsert ==
    /\ txScope = "open" /\ txpc = "subject" /\ txCall.op = "works"
    /\ txConn' = upsert_works(txConn, txCall.sid, txCall.rows)
    /\ txDurable' = txConn'
    /\ txWork' = NoteWorks(txWork, txCall.key, txCall.rows)
    /\ txpc' = "idle" /\ txCall' = NoCall
    /\ UNCHANGED <<txTables, txScope, txExit, txBefore, txCalls, txSubj>>
    /\ UNCHANGED TxOthers

\* save_magnets / save_collection_magnets up to the subject of _ensure_work
Tx_save_magnets_subject ==
    /\ txScope = "open" /\ txpc = "idle" /\ txCalls < MaxCalls
    /\ \E key \in KeysOf(txTables), href \in HrefPool, code \in WorkCodes,
          w \in {r \in WorkRecords : r.code # "" /\ r.href # ""}, M \in TxMagnetLists :
         LET e == ensure_subject(txConn, key, href)
         IN /\ txConn' = e.d
            /\ txDurable' = IF e.commit THEN e.d ELSE txDurable
            /\ txCall' = [NoCall EXCEPT !.op = "magnets",
                                        !.code = code, !.title = w.title, !.whref = w.href,
                                        !.uris = Normalized(M), !.sid = e.id]
    /\ txpc' = "subject" /\ txCalls' = txCalls + 1
    /\ UNCHANGED <<txTables, txScope, txExit, txBefore, txSubj, txWork>>
    /\ UNCHANGED TxOthers

\* ... the work row of _ensure_work / _ensure_collection_work
Tx_save_magnets_work ==
    /\ txScope = "open" /\ txpc = "subject" /\ txCall.op = "magnets"
    /\ LET e == ensure_work(txConn, txCall.sid, txCall.code, txCall.title, txCall.whref)
       IN /\ txConn' = e.d
          /\ txDurable' = IF e.commit THEN e.d ELSE txDurable
          /\ txCall' = [txCall EXCEPT !.wid = e.id]
    /\ txpc' = "work"
    /\ UNCHANGED <<txTables, txScope, txExit, txBefore, txCalls, txSubj, txWork>>
    /\ UNCHANGED TxOthers

\* ... and the "with self.conn" block that replaces the magnets of the work
Tx_save_magnets_replace ==
    /\ txScope = "open" /\ txpc = "work"
    /\ txConn' = replace_magnets(txConn, txCall.wid, txCall.uris)
    /\ txDurable' = txConn'
    /\ txpc' = "idle" /\ txCall' = NoCall
    /\ UNCHANGED <<txTables, txScope, txExit, txBefore, txCalls, txSubj, txWork>>
    /\ UNCHANGED TxOthers

InitTx ==
    /\ DriverIdle /\ FetchIdle /\ StoreIdle /\ BlockIdle /\ FilterIdle /\ CookieIdle
    /\ LateIdle
    /\ txTables \in TableFamilies
    /\ txDurable = TxEmpty /\ txConn = TxEmpty /\ txBefore = TxEmpty
    /\ txScope = "closed" /\ txExit = "none" /\ txpc = "idle" /\ txCall = NoCall
    /\ txCalls = 0
    /\ txSubj = [k \in KeysOf(txTables) |-> NoWrites]
    /\ txWork = [k \in KeysOf(txTables) \X WorkCodes |-> NoWrites]

NextUpsert ==
    \/ Tx_Enter \/ Tx_ExitClean \/ Tx_Raise
    \/ Tx_save_subjects \/ Tx_save_works_ensure \/ Tx_save_works_upsert

SpecUpsert == InitTx /\ [][NextUpsert]_vars

NextTx ==
    \/ NextUpsert
    \/ Tx_RaiseInSave
    \/ Tx_save_magnets_subject \/ Tx_save_magnets_work \/ Tx_save_magnets_replace

SpecTx == InitTx /\ [][NextTx]_vars

\* C15: when the Storage scope is left by an unhandled error, every write made
\* through the save methods during that run is rolled back: the committed
\* database is the one the run found.
C15_RollbackOnError == txExit = "error" => txDurable = txBefore

\* C16: in every committed database, whatever saves ran and wherever a run was
\* aborted, every stored magnet refers to an existing work row and every work row
\* to an existing subject row.
C16_ReferentialIntegrity ==
    /\ \A m \in txDurable.magnets : m.work_id \in 1..Len(txDurable.works)
    /\ \A i \in 1..Len(txDurable.works) :
         txDurable.works[i].subject_id \in 1..Len(txDurable.subjects)

\* a run aborted inside its second save, after that save committed its work row,
\* with the magnets of the first save stored
C16_Witness ==
    /\ txExit = "error" /\ txCalls = 2
    /\ txDurable.magnets # {} /\ Len(txDurable.works) = 2

\* row wid of database d is the work the call is about
IsTargetWork(d, wid, call) ==
    /\ wid \in 1..Len(d.works)
    /\ d.works[wid].subject_id = call.sid /\ d.works[wid].code = call.code

C35_WitnessReplaced ==
    /\ txCalls = 2 /\ txpc = "idle" /\ txScope = "open" /\ Len(txConn.works) = 1
    /\ txConn.magnets = {} /\ txDurable = txConn

UniqueSubjects ==
    \A i, j \in 1..Len(txDurable.subjects) :
        txDurable.subjects[i].key = txDurable.subjects[j].key => i = j
UniqueWorks ==
    \A i, j \in 1..Len(txDurable.works) :
        (/\ txDurable.works[i].subject_id = txDurable.works[j].subject_id
         /\ txDurable.works[i].code = txDurable.works[j].code) => i = j

\* the subject of the key is stored with this href
SubjectHolds(key, href) ==
    \E i \in 1..Len(txDurable.subjects) :
        txDurable.subjects[i].key = key /\ txDurable.subjects[i].href = href

\* the work of the subject and code is stored with this title and href
WorkHolds(key, code, title, href) ==
    \E i \in 1..Len(txDurable.subjects), j \in 1..Len(txDurable.works) :
        /\ txDurable.subjects[i].key = key
        /\ txDurable.works[j].subject_id = i /\ txDurable.works[j].code = code
        /\ txDurable.works[j].title = title /\ txDurable.works[j].href = href

WorksAreLatest ==
    \A kc \in DOMAIN txWork :
        txWork[kc].n > 0 => WorkHolds(kc[1], kc[2], txWork[kc].title, txWork[kc].kept)

\* a save made a second time with the same arguments leaves the database as the
\* first one left it
RepeatChangesNothing ==
    /\ \A sc \in ScopesOf(txTables), R \in SubjectRecordLists(txTables) :
         LET d1 == save_subjects(txDurable, txTables, sc, R)
         IN save_subjects(d1, txTables, sc, R) = d1
    /\ \A key \in KeysOf(txTables), href \in HrefPool, W \in WorkRecordLists :
         LET d1 == save_works(txDurable, key, href, W)
         IN save_works(d1, key, href, W) = d1

\* C18 as stated: after any sequence of save_actors, save_collections,
\* save_actor_works and save_collection_works calls there is at most one subject
\* per key and one work per (subject, code), the stored href of a subject and the
\* title and href of a work are those of the most recent call that wrote the
\* identity, and a repeated save changes nothing.
C18_UpsertAsStated ==
    txpc = "idle" =>
        /\ UniqueSubjects /\ UniqueWorks
        /\ \A key \in DOMAIN txSubj :
             txSubj[key].n > 0 => SubjectHolds(key, txSubj[key].asked)
        /\ WorksAreLatest
        /\ RepeatChangesNothing

\* C18 amended: the same, where the href of a subject is that of the most recent
\* save_actors / save_collections record for it or save_*_works call that created
\* it or passed a non-empty href (an empty href passed by save_*_works for a
\* subject that exists leaves the stored href).
C18_UpsertIdentity ==
    txpc = "idle" =>
        /\ UniqueSubjects /\ UniqueWorks
        /\ \A key \in DOMAIN txSubj :
             txSubj[key].n > 0 => SubjectHolds(key, txSubj[key].kept)
        /\ WorksAreLatest
        /\ RepeatChangesNothing

\* a subject and one of its works written twice, the second write with other values
C18_Witness ==
    /\ txpc = "idle"
    /\ \E key \in DOMAIN txSubj :
         /\ txSubj[key].n = 2 /\ SubjectHolds(key, "h2")
         /\ txWork[<<key, "X">>].n = 2 /\ WorkHolds(key, "X", "", "w2")

\* C17: in the magnet stages a failure while fetching, parsing or storing one item
\* (other than a block or a cancellation) is skipped: the stage never ends with
\* that failure.
C17_ItemFailureSkipped ==
    stage \in {"magnets", "coll_magnets"} => ~(pc = "failed" /\ failure = "error")

(***************************************************************************)
(* SpecSnapshot: load_cookie_dict, the session snapshot file               *)
(*                                                                         *)
(* The JSON document is one of: {"cookie": "k=v; k=v"} (shape "header", an *)
(* entry is one segment of the string, value "None" for a segment without  *)
(* "="), {"cookies": [...]} (shape "cookies"), a bare list (shape "list"), *)
(* a flat object (shape "flat"), any other JSON value (shape "scalar").    *)
(* An entry is [name, value, mapping]; names are token sequences as in the *)
(* cookie normalizer.                                                      *)
(***************************************************************************)
RequiredMarkers == <<"cf_clearance", "_jdb_session", "over18">>

\* how one marker appears in the document
MarkerVariants == {"absent", "ok", "empty", "padded", "null"}

SnapEntry(marker, variant) ==
    CASE variant = "absent" -> <<>>
      [] variant = "ok" -> <<[name |-> <<marker>>, value |-> "v", mapping |-> TRUE]>>
      [] variant = "empty" -> <<[name |-> <<marker>>, value |-> "", mapping |-> TRUE]>>
      [] variant = "padded" ->
            <<[name |-> <<" ", marker>>, value |-> " v", mapping |-> TRUE]>>
      [] variant = "null" -> <<[name |-> <<marker>>, value |-> "None", mapping |-> TRUE]>>

\* a list entry that is no object
JunkEntry == [name |-> <<>>, value |-> "None", mapping |-> FALSE]

SnapDocuments ==
    { [shape |-> sh,
       entries |-> (IF junk THEN <<JunkEntry>> ELSE <<>>)
                   \o SnapEntry(RequiredMarkers[1], v[1])
                   \o SnapEntry(RequiredMarkers[2], v[2])
                   \o SnapEntry(RequiredMarkers[3], v[3])] :
        sh \in {"header", "cookies", "list", "flat"},
        junk \in BOOLEAN,
        v \in [1..3 -> MarkerVariants] }
    \cup { [shape |-> "scalar", entries |-> <<>>] }

\* str.strip() on a value
value_strip(t) == IF t = " v" THEN "v" ELSE t

RECURSIVE parse_cookie_string(_, _)
\* parse_cookie_string: the segments holding "=", key and value stripped, a later
\* key replacing an earlier one
parse_cookie_string(segments, pairs) ==
    IF segments = <<>> THEN pairs
    ELSE LET seg == Head(segments)
         IN parse_cookie_string(Tail(segments),
                IF seg.value # "None"
                  THEN DictSet(pairs, strip_name(seg.name), value_strip(seg.value))
                  ELSE pairs)

RECURSIVE cookie_items_to_name_value_dict(_, _)
\* _cookie_items_to_name_value_dict
cookie_items_to_name_value_dict(cookie_items, pairs) ==
    IF cookie_items = <<>> THEN pairs
    ELSE LET name == strip_name(Head(cookie_items).name)
             value == Head(cookie_items).value
         IN cookie_items_to_name_value_dict(Tail(cookie_items),
                IF name = <<>> \/ value = "None"
                  THEN pairs ELSE DictSet(pairs, name, str_value(value)))

\* a flat object as its pairs
FlatPairs(entries) == [i \in 1..Len(entries) |-> <<entries[i].name, entries[i].value>>]

\* "not cookies.get(k)": the key is missing, or its value is null or empty
Falsy(pairs, k) ==
    \A i \in 1..Len(pairs) : pairs[i][1] = <<k>> => pairs[i][2] \in {"None", ""}

is_cookie_validMutant(pairs) ==
    \A n \in 1..Len(RequiredMarkers) :
        \E i \in 1..Len(pairs) : pairs[i][1] = <<RequiredMarkers[n]>>

\* is_cookie_valid
is_cookie_valid(pairs) ==
    \A n \in 1..Len(RequiredMarkers) : ~Falsy(pairs, RequiredMarkers[n])

SystemExit == [raised |-> TRUE, cookies |-> <<>>, sidecar |-> FALSE, items |-> <<>>]

\* the branches of load_cookie_dict that build "cookies" from the document
SnapshotCookies(data) ==
    LET cookie_items == SelectSeq(data.entries, LAMBDA it : it.mapping)
    IN CASE data.shape = "header" ->
              [raised |-> FALSE, cookies |-> parse_cookie_string(data.entries, <<>>),
               sidecar |-> FALSE, items |-> <<>>]
         [] data.shape = "cookies" ->
              [raised |-> FALSE,
               cookies |-> cookie_items_to_name_value_dict(cookie_items, <<>>),
               sidecar |-> TRUE, items |-> cookie_items]
         [] data.shape = "list" ->
              IF Len(cookie_items) # Len(data.entries) THEN SystemExit
              ELSE [raised |-> FALSE,
                    cookies |-> cookie_items_to_name_value_dict(cookie_items, <<>>),
                    sidecar |-> TRUE, items |-> cookie_items]
         [] data.shape = "flat" ->
              [raised |-> FALSE, cookies |-> FlatPairs(data.entries),
               sidecar |-> FALSE, items |-> <<>>]
         [] OTHER -> SystemExit

\* load_cookie_dict
load_cookie_dict(file, data) ==
    IF file # "json" THEN SystemExit
    ELSE LET loaded == SnapshotCookies(data)
         IN IF loaded.raised \/ ~is_cookie_valid(loaded.cookies)
              THEN SystemExit ELSE loaded

SnapOthers == <<earlyVars, sleepVars, cfVars, editVars, moreVars>>

Snap_Load ==
    /\ snpc = "start"
    /\ snOut' = load_cookie_dict(snFile, snData)
    /\ snpc' = "done"
    /\ UNCHANGED <<snFile, snData>>
    /\ UNCHANGED SnapOthers

InitSnapshot ==
    /\ DriverIdle /\ FetchIdle /\ StoreIdle /\ BlockIdle
    /\ FilterIdle /\ CookieIdle /\ TxIdle /\ SleepIdle /\ CfIdle /\ EditIdle
    /\ MoreIdle
    /\ \/ snFile \in {"missing", "unparsable"} /\ snData = NoData
       \/ snFile = "json" /\ snData \in SnapDocuments
    /\ snpc = "start"
    /\ snOut = NoCookies

NextSnapshot == Snap_Load

SpecSnapshot == InitSnapshot /\ [][NextSnapshot]_vars

\* the document carries the marker with a value that is neither null nor empty
\* (names and header values up to surrounding blanks, keys of a flat object as
\* they are)
MarkerPresent(data, marker) ==
    \E i \in 1..Len(data.entries) :
        LET e == data.entries[i]
        IN /\ e.mapping
           /\ IF data.shape = "flat" THEN e.name = <<marker>>
                ELSE strip_name(e.name) = <<marker>>
           /\ e.value \notin {"None", ""}
Acceptable(file, data) ==
    /\ file = "json"
    /\ data.shape \in {"header", "cookies", "list", "flat"}
    /\ data.shape = "list" => \A i \in 1..Len(data.entries) : data.entries[i].mapping
    /\ \A n \in 1..Len(RequiredMarkers) : MarkerPresent(data, RequiredMarkers[n])

C23_WitnessHeader ==
    /\ snpc = "done" /\ ~snOut.raised /\ snData.shape = "header"
    /\ Len(snOut.cookies) = 3 /\ snOut.cookies[1][2] = "v"
    /\ snData.entries[1].value = " v"

C23_WitnessRefused ==
    /\ snpc = "done" /\ snOut.raised /\ snData.shape = "flat"
    /\ Len(snData.entries) = 3 /\ snData.entries[3].value = ""
    /\ snData.entries[1].value = "v" /\ snData.entries[2].value = "v"

(***************************************************************************)
(* SpecSleep: sleep_with_cancel                                            *)
(*                                                                         *)
(* Time is counted in ticks of 0.005 s, so that the floor of 0.01 s on the *)
(* step is two ticks and a step_seconds below the floor can be passed.     *)
(* time.sleep(d) suspends for d or longer.                                 *)
(***************************************************************************)
MinStep == 2        \* the 0.01 of "step = max(0.01, step_seconds)", in ticks
MaxSeconds == 4     \* longest delay asked, in ticks
MaxStep == 3        \* largest step_seconds passed, in ticks
MaxOvershoot == 1   \* time.sleep may return this much late

SleepOthers == <<earlyVars, snapVars, cfVars, editVars, moreVars>>

Max2(a, b) == IF a >= b THEN a ELSE b
Min2(a, b) == IF a <= b THEN a ELSE b

\* step = max(0.01, step_seconds)
SleepStep(step_seconds) == Max2(MinStep, step_seconds)

\* _check_cancel(): TRUE when it raises CancelledError
check_cancelMutant(flag) == FALSE

check_cancel(flag) == flag

\* the cancellation predicate turns true while sleep_with_cancel runs
Sleep_SetCancel ==
    /\ slpc \in {"start", "check", "sleeping"}
    /\ ~slCancel
    /\ slCancel' = TRUE
    /\ UNCHANGED <<slpc, slSeconds, slStep, slNow, slDeadline, slSlice, slChecks,
                   slSlices, slSeen>>
    /\ UNCHANGED SleepOthers

\* "if seconds <= 0: _check_cancel(); return", else the deadline is computed
Sleep_Enter ==
    /\ slpc = "start"
    /\ IF slSeconds <= 0
         THEN /\ slChecks' = slChecks + 1
              /\ slSeen' = (slSeen \/ slCancel)
              /\ slpc' = IF check_cancel(slCancel) THEN "raised" ELSE "returned"
              /\ UNCHANGED slDeadline
         ELSE /\ slDeadline' = slNow + slSeconds
              /\ slpc' = "check"
              /\ UNCHANGED <<slChecks, slSeen>>
    /\ UNCHANGED <<slSeconds, slStep, slNow, slCancel, slSlice, slSlices>>
    /\ UNCHANGED SleepOthers

\* head of the loop: _check_cancel(); remaining = deadline - now; return when
\* remaining <= 0, else time.sleep(min(step, remaining)) is called
Sleep_Check ==
    /\ slpc = "check"
    /\ slChecks' = slChecks + 1
    /\ slSeen' = (slSeen \/ slCancel)
    /\ IF check_cancel(slCancel)
         THEN slpc' = "raised" /\ UNCHANGED slSlice
         ELSE IF slDeadline - slNow <= 0
         THEN slpc' = "returned" /\ UNCHANGED slSlice
         ELSE /\ slpc' = "sleeping"
              /\ slSlice' = Min2(SleepStep(slStep), slDeadline - slNow)
    /\ UNCHANGED <<slSeconds, slStep, slNow, slDeadline, slCancel, slSlices>>
    /\ UNCHANGED SleepOthers

\* time.sleep returns
Sleep_Slice ==
    /\ slpc = "sleeping"
    /\ \E late \in 0..MaxOvershoot : slNow' = slNow + slSlice + late
    /\ slSlices' = slSlices + 1
    /\ slpc' = "check"
    /\ UNCHANGED <<slSeconds, slStep, slDeadline, slCancel, slSlice, slChecks, slSeen>>
    /\ UNCHANGED SleepOthers

InitSleep ==
    /\ DriverIdle /\ FetchIdle /\ StoreIdle /\ BlockIdle
    /\ FilterIdle /\ CookieIdle /\ TxIdle /\ SnapIdle /\ CfIdle /\ EditIdle
    /\ MoreIdle
    /\ slpc = "start"
    /\ slSeconds \in -1..MaxSeconds
    /\ slStep \in 1..MaxStep
    /\ slNow \in 0..1
    /\ slCancel \in BOOLEAN
    /\ slDeadline = 0 /\ slSlice = 0 /\ slChecks = 0 /\ slSlices = 0
    /\ slSeen = FALSE

NextSleep == Sleep_SetCancel \/ Sleep_Enter \/ Sleep_Check \/ Sleep_Slice

SpecSleep == InitSleep /\ [][NextSleep]_vars

\* what C24 says apart from the length of a slice: a check precedes every slice,
\* the first check that finds the predicate true raises, a call with seconds <= 0
\* makes exactly one check, and a call that returns with seconds > 0 returns at
\* or after the deadline
SleepChecks ==
    /\ slChecks >= slSlices + (IF slpc = "sleeping" THEN 1 ELSE 0)
    /\ slSeen <=> (slpc = "raised")
    /\ (slSeconds <= 0 /\ slpc \in {"returned", "raised"}) =>
          (slChecks = 1 /\ slSlices = 0)
    /\ (slSeconds > 0 /\ slpc = "returned") =>
          (slNow >= slDeadline /\ slSlices >= 1)

\* C24 as stated: ... and each slice lasts at most step_seconds.
C24_SleepAsStated ==
    /\ SleepChecks
    /\ slpc = "sleeping" => slSlice <= slStep

\* C24 amended: ... and each slice lasts at most max(0.01, step_seconds), the
\* step never being shorter than 0.01 s.
C24_SleepWithCancel ==
    /\ SleepChecks
    /\ slpc = "sleeping" => (slSlice <= SleepStep(slStep) /\ slSlice >= 1)
    /\ (slpc = "sleeping" /\ slStep >= MinStep) => slSlice <= slStep

\* a delay of several slices cancelled during its second slice
C24_Witness ==
    /\ slpc = "raised" /\ slSeconds = MaxSeconds /\ slStep = MinStep
    /\ slSlices = 2 /\ slChecks = 3 /\ slSeen

\* a delay that ran to its deadline, and a call with seconds <= 0
C24_WitnessElapsed ==
    /\ slpc = "returned" /\ slSeconds = MaxSeconds /\ slSlices >= 2 /\ ~slCancel

C24_WitnessZero ==
    /\ slpc = "raised" /\ slSeconds <= 0 /\ slChecks = 1

(***************************************************************************)
(* SpecFetcher: create_fetcher in browser mode, a context manager whose    *)
(* body (the "with" block of a stage) runs between the yield and the       *)
(* finally clause.  A stage may call create_fetcher again after leaving    *)
(* it (run_collection_works does so once per collection).                  *)
(***************************************************************************)
MaxUses == 2        \* fetches the body makes before it ends
MaxFetchers == 2    \* create_fetcher calls of one run

CfOthers == <<earlyVars, snapVars, sleepVars, editVars, moreVars>>

\* channels = [preferred_channel] if preferred_channel else _default_browser_channels()
ChannelLists == { <<"chrome">>, <<"msedge", "chrome">>, <<"chrome", "msedge">> }

\* the finally clause around the yield: context.close()
FinallyCloseMutant(closes, how) == IF how = "normal" THEN closes + 1 ELSE closes

FinallyClose(closes, how) == closes + 1

\* "if resolved.mode == 'browser' and sync_playwright is None: raise RuntimeError"
CF_Enter ==
    /\ cfpc = "start"
    /\ IF cfPlaywright
         THEN cfpc' = "launch" /\ cfExit' = cfExit
         ELSE cfpc' = "raised" /\ cfExit' = "no_playwright"
    /\ UNCHANGED <<cfPlaywright, cfChannels, cfCookieStore, cfLaunches, cfCloses, cfUses,
                   cfCalls>>
    /\ UNCHANGED CfOthers

\* one turn of the loop of _launch_persistent_context_with_fallback: the channel
\* launches (return), or fails and the next one is tried; RuntimeError after the
\* last one
CF_Launch ==
    /\ cfpc = "launch"
    /\ \/ /\ cfChannels # <<>>
          /\ cfLaunches' = cfLaunches + 1
          /\ cfpc' = "cookies"
          /\ UNCHANGED <<cfChannels, cfExit>>
       \/ /\ cfChannels # <<>>
          /\ cfChannels' = Tail(cfChannels)
          /\ UNCHANGED <<cfLaunches, cfpc, cfExit>>
       \/ /\ cfChannels = <<>>
          /\ cfpc' = "raised" /\ cfExit' = "launch_failed"
          /\ UNCHANGED <<cfChannels, cfLaunches>>
    /\ UNCHANGED <<cfPlaywright, cfCookieStore, cfCloses, cfUses, cfCalls>>
    /\ UNCHANGED CfOthers

\* "if cookie_store: try: ... add_cookies ... except Exception: warning": whatever
\* the injection does, control goes on to the page
CF_Cookies ==
    /\ cfpc = "cookies"
    /\ \E injection \in (IF cfCookieStore
                            THEN {"added", "nothing_to_add", "raised"}
                            ELSE {"skipped"}) :
         cfpc' = "page"
    /\ UNCHANGED <<cfPlaywright, cfChannels, cfCookieStore, cfLaunches, cfCloses, cfUses,
                   cfExit, cfCalls>>
    /\ UNCHANGED CfOthers

\* page = context.pages[0] or context.new_page(); yield the fetcher.  When the
\* page cannot be created the exception passes through the finally clause.
CF_Page ==
    /\ cfpc = "page"
    /\ \/ /\ cfpc' = "body"
          /\ UNCHANGED <<cfCloses, cfExit>>
       \/ /\ cfCloses' = FinallyClose(cfCloses, "page_failed")
          /\ cfpc' = "raised" /\ cfExit' = "page_failed"
    /\ UNCHANGED <<cfPlaywright, cfChannels, cfCookieStore, cfLaunches, cfUses, cfCalls>>
    /\ UNCHANGED CfOthers

\* the body of the with block uses the fetcher
CF_Use ==
    /\ cfpc = "body"
    /\ cfUses < MaxUses
    /\ cfUses' = cfUses + 1
    /\ UNCHANGED <<cfpc, cfPlaywright, cfChannels, cfCookieStore, cfLaunches, cfCloses,
                   cfExit, cfCalls>>
    /\ UNCHANGED CfOthers

\* the body ends: normally, by a failure, or by CancelledError; the generator is
\* resumed (or the exception thrown into it) at the yield and the finally clause
\* runs
CF_Leave ==
    /\ cfpc = "body"
    /\ \E how \in {"normal", "failure", "cancelled"} :
         /\ cfCloses' = FinallyClose(cfCloses, how)
         /\ cfExit' = how
         /\ cfpc' = IF how = "normal" THEN "exited" ELSE "raised"
    /\ UNCHANGED <<cfPlaywright, cfChannels, cfCookieStore, cfLaunches, cfUses, cfCalls>>
    /\ UNCHANGED CfOthers

\* the stage calls create_fetcher once more
CF_Again ==
    /\ cfpc = "exited"
    /\ cfCalls < MaxFetchers
    /\ cfCalls' = cfCalls + 1
    /\ cfpc' = "start" /\ cfExit' = "none" /\ cfUses' = 0
    /\ cfChannels' \in ChannelLists
    /\ UNCHANGED <<cfPlaywright, cfCookieStore, cfLaunches, cfCloses>>
    /\ UNCHANGED CfOthers

InitFetcher ==
    /\ DriverIdle /\ FetchIdle /\ StoreIdle /\ BlockIdle
    /\ FilterIdle /\ CookieIdle /\ TxIdle /\ SnapIdle /\ SleepIdle /\ EditIdle
    /\ MoreIdle
    /\ cfpc = "start"
    /\ cfPlaywright \in BOOLEAN
    /\ cfChannels \in ChannelLists
    /\ cfCookieStore \in BOOLEAN
    /\ cfLaunches = 0 /\ cfCloses = 0 /\ cfUses = 0 /\ cfExit = "none"
    /\ cfCalls = 1

NextFetcher ==
    CF_Enter \/ CF_Launch \/ CF_Cookies \/ CF_Page \/ CF_Use \/ CF_Leave \/ CF_Again

SpecFetcher == InitFetcher /\ [][NextFetcher]_vars

\* C26: every persistent context that was launched is closed exactly once: none is
\* closed twice or before it exists, one is open exactly while create_fetcher is
\* between the launch and its exit, and when create_fetcher has been left (body
\* finished, failed or cancelled, or the page could not be created) every
\* launched context has been closed.
C26_SessionReleased ==
    /\ cfCloses <= cfLaunches
    /\ cfpc \in {"cookies", "page", "body"} => cfLaunches = cfCloses + 1
    /\ cfpc \in {"start", "launch", "exited", "raised"} => cfCloses = cfLaunches
    /\ cfExit \in {"normal", "failure", "cancelled", "page_failed"} => cfCloses >= 1

\* the second fetcher of a run is left by cancellation after the first one ended
\* normally
C26_Witness ==
    /\ cfpc = "raised" /\ cfExit = "cancelled" /\ cfCalls = 2
    /\ cfLaunches = 2 /\ cfCloses = 2 /\ cfUses >= 1

\* the page could not be created after the cookies were injected
C26_WitnessPage ==
    /\ cfpc = "raised" /\ cfExit = "page_failed" /\ cfCookieStore
    /\ cfLaunches = 1 /\ cfCloses = 1

(***************************************************************************)
(* SpecEdit: Storage.update_work_fields on the actor tables.  A row's id   *)
(* is its position in its table; a null title is the text "None".          *)
(***************************************************************************)
MaxEdits == 2       \* update_work_fields calls of one run

EditOthers == <<earlyVars, snapVars, sleepVars, cfVars, moreVars>>

\* databases as the save methods leave them: no actor; one actor with one work and
\* two magnets; one actor with two works; two actors with one work each under
\* the same code
EditDatabases ==
    { TxEmpty,
      [subjects |-> <<[key |-> <<"", "A">>, href |-> "ha"]>>,
       works |-> <<[subject_id |-> 1, code |-> "X", title |-> "T1", href |-> "h1"]>>,
       magnets |-> {[work_id |-> 1, uri |-> "m1"], [work_id |-> 1, uri |-> "m2"]}],
      [subjects |-> <<[key |-> <<"", "A">>, href |-> "ha"]>>,
       works |-> <<[subject_id |-> 1, code |-> "X", title |-> "T1", href |-> "h1"],
                   [subject_id |-> 1, code |-> "Y", title |-> "None", href |-> "h2"]>>,
       magnets |-> {[work_id |-> 1, uri |-> "m1"], [work_id |-> 2, uri |-> "m2"]}],
      [subjects |-> <<[key |-> <<"", "A">>, href |-> "ha"],
                      [key |-> <<"", "B">>, href |-> ""]>>,
       works |-> <<[subject_id |-> 1, code |-> "X", title |-> "T1", href |-> "h1"],
                   [subject_id |-> 2, code |-> "X", title |-> "T3", href |-> "h3"]>>,
       magnets |-> {[work_id |-> 1, uri |-> "m1"], [work_id |-> 2, uri |-> "m1"]}] }

EditArgs ==
    [actor_name : {"A", " A", "B", ""}, old_code : {"X", "Y", " "},
     new_code : {"X", " X", "Y", "W", ""}, new_title : {"T2", " T2", ""}]

\* str.strip() on the argument texts
edit_strip(t) ==
    CASE t = " A" -> "A"
      [] t = " X" -> "X"
      [] t = " T2" -> "T2"
      [] t = " " -> ""
      [] OTHER -> t

\* "if not actor_name_text or not old_code_text or not new_code_text: raise"
EmptyArgument(actor_name_text, old_code_text, new_code_text) ==
    actor_name_text = "" \/ old_code_text = "" \/ new_code_text = ""

\* "if conflict: raise ValueError"
CodeConflictMutant(d, actor_id, old_code_text, new_code_text) == FALSE

CodeConflict(d, actor_id, old_code_text, new_code_text) ==
    old_code_text # new_code_text /\ FindWork(d, actor_id, new_code_text) # 0

\* update_work_fields: [d, ret]
update_work_fields(d, args) ==
    LET actor_name_text == edit_strip(args.actor_name)
        old_code_text == edit_strip(args.old_code)
        new_code_text == edit_strip(args.new_code)
        new_title_text == edit_strip(args.new_title)
        actor_id == FindSubject(d, <<"", actor_name_text>>)
        work_row == FindWork(d, actor_id, old_code_text)
    IN IF EmptyArgument(actor_name_text, old_code_text, new_code_text)
         THEN [d |-> d, ret |-> "ValueError"]
       ELSE IF actor_id = 0 THEN [d |-> d, ret |-> "false"]
       ELSE IF work_row = 0 THEN [d |-> d, ret |-> "false"]
       ELSE IF CodeConflict(d, actor_id, old_code_text, new_code_text)
         THEN [d |-> d, ret |-> "ValueError"]
       ELSE [d |-> [d EXCEPT !.works =
                       [i \in 1..Len(@) |->
                          IF @[i].subject_id = actor_id /\ @[i].code = old_code_text
                            THEN [@[i] EXCEPT !.code = new_code_text,
                                              !.title = IF new_title_text = ""
                                                          THEN "None" ELSE new_title_text]
                            ELSE @[i]]],
             ret |-> "true"]

Edit_Update ==
    /\ edCalls < MaxEdits
    /\ \E args \in EditArgs :
         LET r == update_work_fields(edDb, args)
         IN /\ edDb' = r.d
            /\ edRet' = r.ret
            /\ edArgs' = args
    /\ edBefore' = edDb
    /\ edCalls' = edCalls + 1
    /\ UNCHANGED EditOthers

InitEdit ==
    /\ DriverIdle /\ FetchIdle /\ StoreIdle /\ BlockIdle
    /\ FilterIdle /\ CookieIdle /\ TxIdle /\ SnapIdle /\ SleepIdle /\ CfIdle
    /\ MoreIdle
    /\ edDb \in EditDatabases
    /\ edBefore = TxEmpty /\ edArgs = NoArgs /\ edRet = "none" /\ edCalls = 0

NextEdit == Edit_Update

SpecEdit == InitEdit /\ [][NextEdit]_vars

\* get_actor_works: the works of an actor as [code, title, href], a null title
\* read as ''
ActorWorks(d, name) ==
    { [code |-> d.works[i].code,
       title |-> (IF d.works[i].title = "None" THEN "" ELSE d.works[i].title),
       href |-> d.works[i].href] :
        i \in { j \in 1..Len(d.works) :
                  d.works[j].subject_id = FindSubject(d, <<"", name>>) } }
\* the magnets stored for (actor, code)
WorkMagnets(d, name, code) ==
    { m.uri : m \in { x \in d.magnets :
                        x.work_id = FindWork(d, FindSubject(d, <<"", name>>), code)
                        /\ x.work_id # 0 } }
HasWork(d, name, code) == \E w \in ActorWorks(d, name) : w.code = code

\* the rename succeeded: the work is found under new_code with the new title, the
\* href and the magnets it had, and nothing else changed
Renamed(name, old, new, title) ==
    /\ \E w \in ActorWorks(edDb, name) :
          /\ w.code = new /\ w.title = title
          /\ \E v \in ActorWorks(edBefore, name) : v.code = old /\ v.href = w.href
    /\ WorkMagnets(edDb, name, new) = WorkMagnets(edBefore, name, old)
    /\ old # new => ~HasWork(edDb, name, old)
    /\ edDb.magnets = edBefore.magnets /\ edDb.subjects = edBefore.subjects
    /\ Len(edDb.works) = Len(edBefore.works)
    /\ \A i \in 1..Len(edDb.works) :
          (edBefore.works[i].subject_id # FindSubject(edBefore, <<"", name>>)
             \/ edBefore.works[i].code # old) => edDb.works[i] = edBefore.works[i]

\* C27 as stated: a call whose work exists and whose new code is free (or equal
\* to the old one) succeeds and renames in place; when new_code differs from
\* old_code and exists for the actor the call raises ValueError and changes
\* nothing; when the actor or the old code does not exist it returns false and
\* changes nothing.
C27_UpdateAsStated ==
    edRet # "none" =>
        LET name == edit_strip(edArgs.actor_name)
            old == edit_strip(edArgs.old_code)
            new == edit_strip(edArgs.new_code)
            title == edit_strip(edArgs.new_title)
        IN /\ edRet = "true" => Renamed(name, old, new, title)
           /\ edRet # "true" => edDb = edBefore
           /\ IF ~HasWork(edBefore, name, old) THEN edRet = "false"
              ELSE IF old # new /\ HasWork(edBefore, name, new) THEN edRet = "ValueError"
              ELSE edRet = "true"

\* C27 amended: the same for calls whose actor name, old code and new code are
\* not empty after stripping; a call with one of them empty raises ValueError and
\* changes nothing, whether or not the work exists.
C27_UpdateWorkFields ==
    edRet # "none" =>
        LET name == edit_strip(edArgs.actor_name)
            old == edit_strip(edArgs.old_code)
            new == edit_strip(edArgs.new_code)
            title == edit_strip(edArgs.new_title)
        IN /\ edRet = "true" => Renamed(name, old, new, title)
           /\ edRet # "true" => edDb = edBefore
           /\ IF name = "" \/ old = "" \/ new = "" THEN edRet = "ValueError"
              ELSE IF ~HasWork(edBefore, name, old) THEN edRet = "false"
              ELSE IF old # new /\ HasWork(edBefore, name, new) THEN edRet = "ValueError"
              ELSE edRet = "true"

\* a work with two magnets renamed to a new code
C27_Witness ==
    /\ edRet = "true" /\ edArgs.old_code = "X" /\ edArgs.new_code = "W"
    /\ edArgs.actor_name = " A" /\ edArgs.new_title = "T2"
    /\ WorkMagnets(edDb, "A", "W") = {"m1", "m2"}
    /\ ActorWorks(edDb, "A") = {[code |-> "W", title |-> "T2", href |-> "h1"]}

\* a rename onto a code the actor already has, and a rename for a missing actor
C27_WitnessConflict ==
    /\ edRet = "ValueError" /\ edArgs.old_code = "X" /\ edArgs.new_code = "Y"
    /\ HasWork(edBefore, "A", "Y") /\ edArgs.actor_name = "A"

C27_WitnessMissing ==
    /\ edRet = "false" /\ edArgs.actor_name = "B" /\ edDb.subjects # <<>>
    /\ edArgs.new_code = "W"

(***************************************************************************)
(* SpecPages: the page loops of crawl_all_pages and crawl_collection_works *)
(* on a site.  A URL is a number; a page holds the href of its next-page   *)
(* link (NoUrl when it has none), its actor boxes as [name, href] and      *)
(* whether it has a section element.                                       *)
(***************************************************************************)
MaxUrls == 2            \* pages of the site
MaxPageFetches == 4     \* fetches followed in one crawl

PgOthers == <<earlyVars, snapVars, sleepVars, cfVars, editVars, cpVars, fwVars, itVars>>

Urls == 1..MaxUrls
\* the boxes of a page: none (with or without a section element), one or two
\* actors, a box without href, two boxes with one href
PageContents ==
    { [actors |-> <<>>, section |-> TRUE],
      [actors |-> <<>>, section |-> FALSE],
      [actors |-> <<[name |-> "a", href |-> "h1"]>>, section |-> TRUE],
      [actors |-> <<[name |-> "a", href |-> "h1"], [name |-> "b", href |-> "h2"]>>,
       section |-> TRUE],
      [actors |-> <<[name |-> "b", href |-> "h2"], [name |-> "a", href |-> "h1"]>>,
       section |-> TRUE],
      [actors |-> <<[name |-> "c", href |-> ""], [name |-> "a", href |-> "h1"]>>,
       section |-> TRUE],
      [actors |-> <<[name |-> "a", href |-> "h1"], [name |-> "a2", href |-> "h1"]>>,
       section |-> TRUE] }
Sites ==
    { [u \in Urls |-> [next |-> nx[u], actors |-> ct[u].actors,
                        section |-> ct[u].section]] :
        nx \in [Urls -> {NoUrl} \cup Urls], ct \in [Urls -> PageContents] }

\* find_next_url(html)
find_next_url(page) == page.next
\* _is_interstitial_page(soup)
is_interstitial_page(page) == ~page.section

\* "if not href or href in seen_hrefs: continue" without the seen test
KeepsActorMutant(actor, seen) == actor.href # ""

KeepsActor(actor, seen) == actor.href # "" /\ actor.href \notin seen

\* the loop over actors: skip a box without href or with a seen href
RECURSIVE new_items(_, _)
new_items(actors, seen) ==
    IF actors = <<>> THEN <<>>
    ELSE IF KeepsActor(Head(actors), seen)
      THEN <<Head(actors)>> \o new_items(Tail(actors), seen \cup {Head(actors).href})
      ELSE new_items(Tail(actors), seen)

\* head of "while url": ensure_not_cancelled(), fetcher.fetch(url), blocked check
Page_Fetch ==
    /\ pgpc = "loop" /\ pgUrl # NoUrl
    /\ Len(pgFetched) < MaxPageFetches
    /\ \E outcome \in {"ok", "blocked", "cancelled", "cancelled_before"} :
         /\ pgFetched' = IF outcome = "cancelled_before" THEN pgFetched
                          ELSE Append(pgFetched, pgUrl)
         /\ pgpc' = CASE outcome = "ok" -> "fetched"
                      [] outcome = "blocked" -> "failed"
                      [] OTHER -> "cancelled"
    /\ UNCHANGED <<pgKind, pgSite, pgUrl, pgPage, pgItems, pgSeen>>
    /\ UNCHANGED PgOthers

\* the rest of the loop body: parse, collect, interstitial break, next url, sleep
Page_Advance ==
    /\ pgpc = "fetched"
    /\ LET page == pgSite[pgUrl]
           added == IF pgKind = "actors" THEN new_items(page.actors, pgSeen)
                    ELSE page.actors
           next_url == find_next_url(page)
           stop == pgKind = "actors" /\ page.actors = <<>> /\ is_interstitial_page(page)
       IN /\ pgItems' = pgItems \o added
          /\ pgSeen' = IF pgKind = "actors"
                         THEN pgSeen \cup { added[i].href : i \in 1..Len(added) }
                         ELSE pgSeen
          /\ IF stop
               THEN pgpc' = "returned" /\ UNCHANGED <<pgUrl, pgPage>>
             ELSE IF next_url # NoUrl /\ next_url # pgUrl
               THEN /\ pgUrl' = next_url /\ pgPage' = pgPage + 1
                    /\ \/ pgpc' = "loop"
                       \/ pgpc' = "cancelled"
               ELSE pgUrl' = NoUrl /\ pgpc' = "returned" /\ pgPage' = pgPage
    /\ UNCHANGED <<pgKind, pgSite, pgFetched>>
    /\ UNCHANGED PgOthers

InitPages ==
    /\ DriverIdle /\ FetchIdle /\ StoreIdle /\ BlockIdle
    /\ FilterIdle /\ CookieIdle /\ TxIdle /\ SnapIdle /\ SleepIdle /\ CfIdle
    /\ EditIdle /\ CpIdle /\ FwIdle /\ ItIdle
    /\ pgKind \in {"actors", "works"}
    /\ pgSite \in Sites
    /\ pgUrl = 1 /\ pgPage = 1
    /\ pgFetched = <<>> /\ pgItems = <<>> /\ pgSeen = {} /\ pgpc = "loop"

NextPages == Page_Fetch \/ Page_Advance

SpecPages == InitPages /\ [][NextPages]_vars

\* C32: within one crawl no URL is fetched twice (so the crawl ends on every site),
\* and the loop ends exactly when the page has no next-page link, when the link
\* is the page's own URL, or (crawl_all_pages) when the page has no actor box and
\* no section element.
C32_NoRefetch ==
    /\ \A p, q \in 1..Len(pgFetched) : p # q => pgFetched[p] # pgFetched[q]
    /\ (pgpc = "returned" /\ pgFetched # <<>>) =>
          LET page == pgSite[pgFetched[Len(pgFetched)]]
          IN \/ page.next = NoUrl
             \/ page.next = pgFetched[Len(pgFetched)]
             \/ (pgKind = "actors" /\ page.actors = <<>> /\ ~page.section)

\* the actor boxes of the pages fetched, in page order
RECURSIVE BoxesOf(_)
BoxesOf(urls) ==
    IF urls = <<>> THEN <<>> ELSE pgSite[Head(urls)].actors \o BoxesOf(Tail(urls))
\* the boxes from position k on that have a href no earlier box has
RECURSIVE FirstAppearances(_, _)
FirstAppearances(boxes, k) ==
    IF k > Len(boxes) THEN <<>>
    ELSE (IF boxes[k].href # "" /\ \A j \in 1..(k - 1) : boxes[j].href # boxes[k].href
            THEN <<boxes[k]>> ELSE <<>>)
         \o FirstAppearances(boxes, k + 1)

\* C40: crawl_all_pages collects every subject at most once, by href: no two
\* collected items share a href, and the items are the first box of every href
\* on the pages read, in order of first appearance.
C40_DedupeByHref ==
    pgKind = "actors" =>
        /\ \A p, q \in 1..Len(pgItems) : p # q => pgItems[p].href # pgItems[q].href
        /\ pgpc \in {"loop", "returned"} =>
              pgItems = FirstAppearances(BoxesOf(pgFetched), 1)

\* two pages read, the second repeating the subject of the first after a new one
C40_Witness ==
    /\ pgKind = "actors" /\ pgpc = "returned" /\ pgFetched = <<1, 2>>
    /\ pgSite[1].actors = <<[name |-> "a", href |-> "h1"]>>
    /\ pgSite[2].actors = <<[name |-> "b", href |-> "h2"], [name |-> "a", href |-> "h1"]>>
    /\ pgItems = <<[name |-> "a", href |-> "h1"], [name |-> "b", href |-> "h2"]>>

\* one href under two names on one page, and a page read twice
C40_WitnessSamePage ==
    /\ pgKind = "actors" /\ pgpc = "returned" /\ pgFetched = <<1>>
    /\ Len(pgSite[1].actors) = 2 /\ pgItems = <<[name |-> "a", href |-> "h1"]>>
    /\ pgSite[1].actors[2].name = "a2"

C40_WitnessRevisit ==
    /\ pgKind = "actors" /\ pgpc = "loop" /\ pgFetched = <<1, 2, 1>>
    /\ Len(pgItems) = 2

(***************************************************************************)
(* SpecCheckpoint: save_checkpoint, load_checkpoint and clear_checkpoint   *)
(* on the checkpoint file.  The file is missing, unparsable, or holds a    *)
(* JSON object name -> {"cursor", "updated_at"}.                           *)
(***************************************************************************)
MaxCkOps == 3       \* calls of one behaviour

CpOthers == <<earlyVars, snapVars, sleepVars, cfVars, editVars, pgVars, fwVars, itVars>>

StageNames == {"magnets", "collection_magnets:series"}
\* cursors handed to save_checkpoint; "{}" is the empty cursor
CkCursors == {"c1", "c2", "{}"}

\* _read_json(path, default={}): {} for a missing or unparsable file
read_json(file) == IF file.state = "ok" THEN file.data ELSE EmptyDb

\* save_checkpoint that starts from an empty object
SaveCheckpointFileMutant(file, name, cursor, now) ==
    [state |-> "ok",
     data |-> [n \in {name} |-> [cursor |-> cursor, updated_at |-> now]]]

\* save_checkpoint: data = _read_json(path); data[name] = {...}; write
SaveCheckpointFile(file, name, cursor, now) ==
    LET data == read_json(file)
    IN [state |-> "ok",
        data |-> [n \in (DOMAIN data) \cup {name} |->
                    IF n = name THEN [cursor |-> cursor, updated_at |-> now]
                    ELSE data[n]]]

\* load_checkpoint: entry = data.get(name); None without entry, else its cursor
LoadCheckpointFile(file, name) ==
    LET data == read_json(file)
    IN IF name \notin DOMAIN data THEN "None" ELSE data[name].cursor

\* clear_checkpoint: nothing without file; pop and write when the name is there
ClearCheckpointFile(file, name) ==
    IF file.state = "missing" THEN file
    ELSE LET data == read_json(file)
         IN IF name \in DOMAIN data
              THEN [state |-> "ok", data |-> [n \in (DOMAIN data) \ {name} |-> data[n]]]
              ELSE file

Ckpt_Save ==
    /\ cpClock < MaxCkOps
    /\ \E name \in StageNames, cursor \in CkCursors :
         /\ cpFile' = SaveCheckpointFile(cpFile, name, cursor, cpClock + 1)
         /\ cpLast' = [cpLast EXCEPT ![name] = cursor]
         /\ cpOp' = [op |-> "save", name |-> name]
    /\ cpClock' = cpClock + 1
    /\ UNCHANGED cpRet
    /\ UNCHANGED CpOthers

Ckpt_Load ==
    /\ cpClock < MaxCkOps
    /\ \E name \in StageNames :
         /\ cpRet' = LoadCheckpointFile(cpFile, name)
         /\ cpOp' = [op |-> "load", name |-> name]
    /\ cpClock' = cpClock + 1
    /\ UNCHANGED <<cpFile, cpLast>>
    /\ UNCHANGED CpOthers

Ckpt_Clear ==
    /\ cpClock < MaxCkOps
    /\ \E name \in StageNames :
         /\ cpFile' = ClearCheckpointFile(cpFile, name)
         /\ cpLast' = [cpLast EXCEPT ![name] = "None"]
         /\ cpOp' = [op |-> "clear", name |-> name]
    /\ cpClock' = cpClock + 1
    /\ UNCHANGED cpRet
    /\ UNCHANGED CpOthers

InitCheckpoint ==
    /\ DriverIdle /\ FetchIdle /\ StoreIdle /\ BlockIdle
    /\ FilterIdle /\ CookieIdle /\ TxIdle /\ SnapIdle /\ SleepIdle /\ CfIdle
    /\ EditIdle /\ PgIdle /\ FwIdle /\ ItIdle
    /\ cpFile \in { [state |-> st, data |-> EmptyDb] : st \in {"missing", "corrupt", "ok"} }
    /\ cpLast = [n \in StageNames |-> "None"]
    /\ cpOp = [op |-> "none", name |-> "none"] /\ cpRet = "none" /\ cpClock = 0

NextCheckpoint == Ckpt_Save \/ Ckpt_Load \/ Ckpt_Clear

SpecCheckpoint == InitCheckpoint /\ [][NextCheckpoint]_vars

\* C34: load_checkpoint(stage) returns the cursor last saved for that stage name
\* and not cleared since, and none when there is no such cursor; saving or
\* clearing one stage name changes the cursor of no other stage name.
C34_CheckpointLifecycle ==
    /\ \A n \in StageNames : LoadCheckpointFile(cpFile, n) = cpLast[n]
    /\ cpOp.op = "load" => cpRet = cpLast[cpOp.name]

\* a cursor saved for one stage, then one saved and cleared for the other: the
\* first is still returned
C34_Witness ==
    /\ cpOp = [op |-> "clear", name |-> "magnets"] /\ cpClock = 3
    /\ cpLast["collection_magnets:series"] = "c1"
    /\ cpLast["magnets"] = "None"
    /\ DOMAIN cpFile.data = {"collection_magnets:series"}
    /\ cpFile.data["collection_magnets:series"].updated_at = 1

C34_WitnessLoad ==
    /\ cpOp = [op |-> "load", name |-> "magnets"] /\ cpRet = "c2" /\ cpClock = 3
    /\ cpLast["collection_magnets:series"] = "c1"

(***************************************************************************)
(* SpecFlow: FlowWorker.run (app/gui/main_window.py), the pipeline worker. *)
(* A stage function returns or raises CancelledError, another Exception,   *)
(* or SystemExit (load_cookie_dict on an unusable session snapshot).       *)
(***************************************************************************)
FwOthers == <<earlyVars, snapVars, sleepVars, cfVars, editVars, pgVars, cpVars, itVars>>

StageOrder == <<"collect", "works", "magnets", "filter">>
\* stages = [...]: the enabled kinds in the order of the four "if self.run_*"
FlowStages(enabled) == SelectSeq(StageOrder, LAMBDA k : k \in enabled)

\* what a stage function can do: return, or raise; SystemExit comes from the
\* unguarded load_cookie_dict of run_collect_actors and run_magnet_jobs
StageOutcomes(kind) ==
    {"ok", "CancelledError", "Exception"}
        \cup (IF kind \in {"collect", "magnets"} THEN {"SystemExit"} ELSE {})

\* the except clauses of run(): the signal emitted for what the stage raised,
\* "none" for an exception that no clause catches
SignalFor(raised) ==
    CASE raised = "CancelledError" -> "canceled"
      [] raised = "Exception" -> "error"
      [] OTHER -> "none"

\* request_cancel(), from the GUI thread at any moment of the run
Flow_RequestCancel ==
    /\ fwpc \in {"start", "loop"} /\ ~fwCancel
    /\ fwCancel' = TRUE
    /\ UNCHANGED <<fwEnabled, fwpc, fwIdx, fwChecker, fwSignals, fwRan, fwExit>>
    /\ UNCHANGED FwOthers

\* self.started.emit(); set_cancel_checker(lambda: ...); stages = [...]
Flow_Start ==
    /\ fwpc = "start"
    /\ fwSignals' = Append(fwSignals, "started")
    /\ fwChecker' = "set"
    /\ fwIdx' = 1
    /\ fwpc' = "loop"
    /\ UNCHANGED <<fwEnabled, fwCancel, fwRan, fwExit>>
    /\ UNCHANGED FwOthers

\* one round of "for idx, (stage_kind, label, func) in enumerate(stages)" with the
\* except and finally clauses, and the end of run() after the loop
Flow_Stage ==
    /\ fwpc = "loop"
    /\ LET stages == FlowStages(fwEnabled)
       IN IF fwIdx > Len(stages)
            THEN /\ fwSignals' = Append(fwSignals, "finished")
                 /\ fwChecker' = "none" /\ fwpc' = "exited" /\ fwExit' = "return"
                 /\ UNCHANGED <<fwIdx, fwRan>>
          ELSE IF fwCancel
            THEN /\ fwSignals' = Append(fwSignals, "canceled")
                 /\ fwChecker' = "none" /\ fwpc' = "exited" /\ fwExit' = "return"
                 /\ UNCHANGED <<fwIdx, fwRan>>
          ELSE \E outcome \in StageOutcomes(stages[fwIdx]) :
                 /\ fwRan' = Append(fwRan, stages[fwIdx])
                 /\ IF outcome = "ok"
                      THEN /\ fwSignals' = Append(fwSignals, "stage_changed")
                           /\ fwIdx' = fwIdx + 1
                           /\ UNCHANGED <<fwChecker, fwpc, fwExit>>
                      ELSE /\ fwSignals' =
                                IF SignalFor(outcome) = "none"
                                  THEN Append(fwSignals, "stage_changed")
                                  ELSE fwSignals \o <<"stage_changed", SignalFor(outcome)>>
                           /\ fwChecker' = "none" /\ fwpc' = "exited"
                           /\ fwExit' = IF SignalFor(outcome) = "none"
                                          THEN outcome ELSE "return"
                           /\ fwIdx' = fwIdx
    /\ UNCHANGED <<fwEnabled, fwCancel>>
    /\ UNCHANGED FwOthers

InitFlow ==
    /\ DriverIdle /\ FetchIdle /\ StoreIdle /\ BlockIdle
    /\ FilterIdle /\ CookieIdle /\ TxIdle /\ SnapIdle /\ SleepIdle /\ CfIdle
    /\ EditIdle /\ PgIdle /\ CpIdle /\ ItIdle
    /\ fwEnabled \in SUBSET {"collect", "works", "magnets", "filter"}
    /\ fwpc = "start" /\ fwIdx = 0 /\ fwCancel \in BOOLEAN
    /\ fwChecker = "none" /\ fwSignals = <<>> /\ fwRan = <<>> /\ fwExit = "none"

NextFlow == Flow_RequestCancel \/ Flow_Start \/ Flow_Stage

SpecFlow == InitFlow /\ [][NextFlow]_vars

TerminalSignals == {"finished", "canceled", "error"}
\* q is the start of sequence full
IsPrefix(q, full) == Len(q) <= Len(full) /\ \A i \in 1..Len(q) : q[i] = full[i]

\* C37: the stages called are the first enabled stages in the order collect,
\* works, magnets, filter; a run that has ended emitted "started" first and
\* exactly one of "finished", "canceled", "error", as its last signal, with
\* "finished" only when every enabled stage ran; the cancel checker is none
\* after every exit.
C37_FlowWorker ==
    /\ IsPrefix(fwRan, FlowStages(fwEnabled))
    /\ fwpc = "exited" =>
          /\ fwChecker = "none"
          /\ fwSignals[1] = "started"
          /\ Cardinality({ i \in 1..Len(fwSignals) : fwSignals[i] \in TerminalSignals }) = 1
          /\ fwSignals[Len(fwSignals)] \in TerminalSignals
          /\ fwSignals[Len(fwSignals)] = "finished" => fwRan = FlowStages(fwEnabled)

(***************************************************************************)
(* SpecItems: the item loop of run_magnet_jobs for one actor, writing the  *)
(* magnets table of SpecStore.  A fetched page is blocked or not, and      *)
(* parse_magnets delivers a record list, possibly empty.                   *)
(***************************************************************************)
ItOthers == <<earlyVars, snapVars, sleepVars, cfVars, editVars, pgVars, cpVars, fwVars>>

\* works of the actor, in the order of get_all_actor_works
ItemWorks == <<"w1", "w2">>

\* what parse_magnets can deliver for a page: nothing, one magnet, two magnets,
\* one record without uri
ParsedPool ==
    { <<>>, <<[href |-> "m2"]>>, <<[href |-> " m1"], [href |-> "m2"]>>, <<[href |-> ""]>> }

\* a round of the loop: the fetch returns a page ("page", "blocked") or raises
\* another exception ("error"); the cancellation predicate turns true before
\* the round ("top"), during the sleep after the save ("sleep"), or not at all
Rounds ==
    [work : {""}, outcome : {"page", "blocked", "error"}, parsed : ParsedPool,
     cancelAt : {"never", "top", "sleep"}]

\* crawl_magnets_for_row: "if result.blocked: raise RuntimeError(...)"; the parsed
\* list plays no part
RowRaisesMutant(blocked, parsed) == blocked \/ parsed = <<>>

RowRaises(blocked, parsed) == blocked

\* one round of "for i, work in enumerate(works[start_index:], ...)": the cancel
\* check, crawl_magnets_for_row, save_magnets, the sleep, the except clauses and
\* save_checkpoint; after the last work the loop ends
Items_Round ==
    /\ itpc = "item"
    /\ IF itIdx >= Len(ItemWorks)
         THEN itpc' = "done" /\ UNCHANGED <<itTable, itIdx, itCkpt, itLast>>
         ELSE \E r \in Rounds :
                LET code == ItemWorks[itIdx + 1]
                    round == [r EXCEPT !.work = code]
                    saved == InsertMany(DeleteWhereWork(itTable, code), code,
                                        Normalized(r.parsed))
                IN /\ r.outcome # "page" => r.parsed = <<>>
                   /\ itLast' = round
                   /\ IF r.cancelAt = "top"
                        THEN itpc' = "raised" /\ UNCHANGED <<itTable, itIdx, itCkpt>>
                      ELSE IF r.outcome = "error"
                        THEN /\ itCkpt' = itIdx + 1 /\ itIdx' = itIdx + 1
                             /\ UNCHANGED <<itTable, itpc>>
                      ELSE IF RowRaises(r.outcome = "blocked", r.parsed)
                        THEN itpc' = "raised" /\ UNCHANGED <<itTable, itIdx, itCkpt>>
                      ELSE IF r.cancelAt = "sleep"
                        THEN /\ itTable' = saved
                             /\ itpc' = "raised" /\ UNCHANGED <<itIdx, itCkpt>>
                      ELSE /\ itTable' = saved
                           /\ itCkpt' = itIdx + 1 /\ itIdx' = itIdx + 1
                           /\ UNCHANGED itpc
    /\ UNCHANGED ItOthers

\* the magnets table before the run: each work with or without a stored magnet
StoredBefore ==
    { <<>>, <<<<"w1", "m3">>>>, <<<<"w2", "m3">>>>, <<<<"w1", "m3">>, <<"w2", "m3">>>>,
      <<<<"w1", "m2">>, <<"w1", "m3">>>> }

InitItems ==
    /\ DriverIdle /\ FetchIdle /\ StoreIdle /\ BlockIdle
    /\ FilterIdle /\ CookieIdle /\ TxIdle /\ SnapIdle /\ SleepIdle /\ CfIdle
    /\ EditIdle /\ PgIdle /\ CpIdle /\ FwIdle
    /\ itTable \in StoredBefore
    /\ itIdx = 0 /\ itCkpt = NoIndex /\ itpc = "item" /\ itLast = NoRound

NextItems == Items_Round

SpecItems == InitItems /\ [][NextItems]_vars

\* the last round fetched a page that is not blocked and parsed nothing from it,
\* and the run was not cancelled in that round
EmptyRound ==
    /\ itLast.outcome = "page" /\ itLast.parsed = <<>> /\ itLast.cancelAt = "never"

\* C39: after a round whose page is not blocked and parses to the empty list,
\* the work has no magnets stored (whatever it had before), the cursor points
\* past the work, and the loop goes on: it has not raised.
C39_EmptyParseIsNothingFound ==
    [][ (itpc = "item" /\ itIdx < Len(ItemWorks) /\ EmptyRound') =>
          (/\ itLast'.work = ItemWorks[itIdx + 1]
           /\ RowsOf(itTable', itLast'.work) = <<>>
           /\ \A w \in {"w1", "w2"} \ {itLast'.work} :
                 RowsOf(itTable', w) = RowsOf(itTable, w)
           /\ itCkpt' = itIdx + 1 /\ itIdx' = itIdx + 1
           /\ itpc' = "item") ]_vars

\* the first work's page parsed to nothing: no row is stored, the cursor is at 1
\* and the loop is at the second work
C39_Witness ==
    /\ EmptyRound /\ itLast.work = "w1" /\ itpc = "item" /\ itIdx = 1 /\ itCkpt = 1
    /\ itTable = <<>>

\* the run reached its end after an empty second work
C39_WitnessDone ==
    /\ EmptyRound /\ itLast.work = "w2" /\ itpc = "done" /\ itCkpt = 2
    /\ RowsOf(itTable, "w2") = <<>> /\ RowsOf(itTable, "w1") # <<>>

====
